---- MODULE Spec2Model ----
(***************************************************************************)
(* The genetic-algorithm engine of hexa-color-solver.cu: the population    *)
(* buffers, the three kernels (init_population, evaluate_fitness,          *)
(* crossover_and_mutate) and the host loop of main that selects elites,    *)
(* tracks the best-ever palette and adapts the mutation rate.              *)
(*                                                                         *)
(* Floats are fixed-point integers: a channel value v is held as           *)
(* v * ChannelScale, a contrast ratio as cr * ContrastScale, a mutation    *)
(* rate as rate * RateScale, a fitness in whole score units.               *)
(***************************************************************************)
EXTENDS Integers, Sequences, FiniteSets, TLC

\* ---------------------------------------------------------------- bounds
\* Seeds that time(NULL) can hand to init_curand.
NumSeeds == 7
\* Largest generation count (-g) a run is started with.
MaxGenerations == 3

\* ------------------------------------------------------- fixed-point units
ChannelScale == 1000
LumScale == 100000
ContrastScale == 1000
RateScale == 100000

\* ------------------------------------------------------ program constants
NumColors == 16
NumChannels == 3
MIN_POPULATION == 100
MIN_GENERATIONS == 1

\* ----------------------------------------------------------------- float
\* A float is held as [m, k], the value m * 2^k with m of at most
\* FloatBits bits (one more right after a rounding that carried).
FloatBits == 24

\* float elite_ratio = 0.1f, the float nearest to 0.1: 13421773 * 2^-27.
EliteRatioSignificand == 13421773
EliteRatioExponent == 27

RECURSIVE bit_length(_)
bit_length(n) == IF n = 0 THEN 0 ELSE 1 + bit_length(n \div 2)

\* Round to nearest, ties to even: q with the dropped part rem out of 2 * half.
round_half_even(q, rem, half) ==
  IF rem > half \/ (rem = half /\ q % 2 = 1) THEN q + 1 ELSE q

\* The q of the first d bits dropped from n, rounded.
drop_bits(n, d) ==
  IF d = 0 THEN n
  ELSE round_half_even(n \div (2 ^ d), n % (2 ^ d), 2 ^ (d - 1))

\* Conversion of a non-negative int to float.
int_to_float(p) ==
  LET d == IF bit_length(p) > FloatBits THEN bit_length(p) - FloatBits ELSE 0
  IN  [m |-> drop_bits(p, d), k |-> d]

\* x * (M * 2^-E) in float arithmetic: the exact product, in two limbs of
\* 24 bits, rounded to FloatBits bits.
float_mul(x, M, E) ==
  LET mh == x.m \div 4096
      ml == x.m % 4096
      Mh == M \div 4096
      Ml == M % 4096
      mid == mh * Ml + ml * Mh
      low == ml * Ml + (mid % 4096) * 4096
      lo == low % (2 ^ 24)
      hi == mh * Mh + mid \div 4096 + low \div (2 ^ 24)
      d == bit_length(hi)
      q0 == hi * (2 ^ (24 - d)) + lo \div (2 ^ d)
      q == IF d = 0 THEN q0
           ELSE round_half_even(q0, lo % (2 ^ d), 2 ^ (d - 1))
  IN  [m |-> q, k |-> d + x.k - E]

\* (int) of a non-negative float.
truncate_float(x) ==
  IF x.k >= 0 THEN x.m * (2 ^ x.k) ELSE x.m \div (2 ^ (0 - x.k))

\* int elite_count = (int)(population_size * elite_ratio);
elite_count_of(p) ==
  truncate_float(float_mul(int_to_float(p), EliteRatioSignificand, EliteRatioExponent))

\* r_min, r_max, g_min, g_max, b_min, b_max, fixed
ColorRangeTable ==
  << <<  0,   0,   0,   0,   0,   0, TRUE >>,
     <<140, 255,   0, 150,   0, 150, FALSE>>,
     <<  0, 120,  80, 255,   0, 120, FALSE>>,
     <<200, 255, 160, 220,   0,  20, FALSE>>,
     <<  0, 160,   0, 240, 120, 255, FALSE>>,
     <<140, 255,   0, 180, 140, 255, FALSE>>,
     <<  0, 100,  80, 255,  80, 255, FALSE>>,
     <<180, 220, 180, 220, 180, 220, FALSE>>,
     << 50,  80,  50,  80,  50,  80, FALSE>>,
     <<180, 255,  80, 200,  80, 200, FALSE>>,
     << 80, 200, 160, 255,  80, 200, FALSE>>,
     <<180, 255, 180, 255,  80, 180, FALSE>>,
     << 80, 200, 120, 255, 160, 255, FALSE>>,
     <<180, 255,  80, 200, 180, 255, FALSE>>,
     << 80, 180, 180, 255, 180, 255, FALSE>>,
     <<255, 255, 255, 255, 255, 255, TRUE >> >>

Colors == 0 .. (NumColors - 1)
Channels == 0 .. (NumChannels - 1)
PaletteLen == NumColors * NumChannels

\* color_ranges[color]: r_min, r_max, g_min, g_max, b_min, b_max, fixed.
color_ranges(color) == ColorRangeTable[color + 1]

\* The range of channel c of a slot, as crossover_and_mutate selects it.
range_min(range, c) == range[2 * c + 1]

range_max(range, c) == range[2 * c + 2]

\* A kernel that treats no slot as fixed.
never_fixed(range) == FALSE

\* range.fixed
is_fixed(range) == range[7]

\* palettes[idx * 16 * 3 + color * 3 + c] of one individual (a 48-sequence).
chan(palette, color, c) == palette[color * NumChannels + c + 1]

\* ------------------------------------------------------------- cuRAND
\* One generator state per population index.  The library's generator is
\* stood in for by a full-period linear congruential generator; a uniform
\* draw is level / UniformLevels with level in 1 .. UniformLevels, so the
\* draws cover (0, 1] with 1.0 included, as curand_uniform documents.
LcgModulus == 65537
LcgMultiplier == 75
LcgIncrement == 74
UniformLevels == 1000

curand_step(st) == (st * LcgMultiplier + LcgIncrement) % LcgModulus

curand_init(seed, idx) ==
  curand_step(((seed + 1) * 7919 + idx * 263) % LcgModulus)

\* curand_uniform: the level of the draw made from the advanced state.
curand_uniform(st) == (st % UniformLevels) + 1

\* curand_normal, in tenths of a standard deviation.
NormalTable == << -20, -12, -7, -3, 0, 3, 7, 12, 20 >>

curand_normal(st) == NormalTable[(st % Len(NormalTable)) + 1]

\* ----------------------------------------------------- init_population
RECURSIVE init_channels(_, _, _)
init_channels(k, st, palette) ==
  IF k = PaletteLen
  THEN [state |-> st, palette |-> palette]
  ELSE LET range == color_ranges(k \div NumChannels)
           c == k % NumChannels
           lo == range_min(range, c)
           hi == range_max(range, c)
           s1 == IF is_fixed(range) THEN st ELSE curand_step(st)
           val == IF is_fixed(range)
                  THEN lo * ChannelScale
                  ELSE lo * ChannelScale
                       + (curand_uniform(s1) * (hi - lo) * ChannelScale)
                         \div UniformLevels
           next == Append(palette, val)
       IN  IF Len(next) = k + 1 /\ s1 >= 0
           THEN init_channels(k + 1, s1, next)
           ELSE [state |-> st, palette |-> palette]

\* One thread of init_population: the new palette and generator state.
init_population(idx, st) ==
  LET out == init_channels(0, st, << >>)
  IN  [state |-> out.state, palette |-> out.palette, pos |-> << >>]

\* ------------------------------------------------------------- color.cuh
\* wcag2::linearize at the integer channel values 0 .. 255, times LumScale:
\* v = channel / 255; v <= 0.04045 ? v / 12.92 : pow((v + 0.055) / 1.055, 2.4).
LinearizeTable ==
<<
    0, 30, 61, 91, 121, 152, 182, 212, 243, 273, 304, 335, 368, 402, 439, 478,
    518, 561, 605, 651, 700, 750, 802, 857, 913, 972, 1033, 1096, 1161, 1229, 1298, 1370,
    1444, 1521, 1600, 1681, 1764, 1850, 1938, 2029, 2122, 2217, 2315, 2416, 2519, 2624, 2732, 2843,
    2956, 3071, 3190, 3310, 3434, 3560, 3689, 3820, 3955, 4092, 4231, 4374, 4519, 4667, 4817, 4971,
    5127, 5286, 5448, 5613, 5781, 5951, 6125, 6301, 6480, 6663, 6848, 7036, 7227, 7421, 7619, 7819,
    8022, 8228, 8438, 8650, 8866, 9084, 9306, 9531, 9759, 9990, 10224, 10462, 10702, 10946, 11193, 11444,
    11697, 11954, 12214, 12477, 12744, 13014, 13287, 13563, 13843, 14126, 14413, 14703, 14996, 15293, 15593, 15896,
    16203, 16513, 16827, 17144, 17465, 17789, 18116, 18447, 18782, 19120, 19462, 19807, 20156, 20508, 20864, 21223,
    21586, 21953, 22323, 22697, 23074, 23455, 23840, 24228, 24620, 25016, 25415, 25818, 26225, 26636, 27050, 27468,
    27889, 28315, 28744, 29177, 29614, 30054, 30499, 30947, 31399, 31855, 32314, 32778, 33245, 33716, 34191, 34670,
    35153, 35640, 36131, 36625, 37124, 37626, 38133, 38643, 39157, 39676, 40198, 40724, 41254, 41789, 42327, 42869,
    43415, 43966, 44520, 45079, 45641, 46208, 46778, 47353, 47932, 48515, 49102, 49693, 50289, 50888, 51492, 52100,
    52712, 53328, 53948, 54572, 55201, 55834, 56471, 57112, 57758, 58408, 59062, 59720, 60383, 61050, 61721, 62396,
    63076, 63760, 64448, 65141, 65837, 66539, 67244, 67954, 68669, 69387, 70110, 70838, 71569, 72306, 73046, 73791,
    74540, 75294, 76052, 76815, 77582, 78354, 79130, 79910, 80695, 81485, 82279, 83077, 83880, 84687, 85499, 86316,
    87137, 87962, 88792, 89627, 90466, 91310, 92158, 93011, 93869, 94731, 95597, 96469, 97345, 98225, 99110, 100000 >>

\* linearize of a channel value (held times ChannelScale); between two
\* integer channel values the table is interpolated linearly.
linearize(channel) ==
  LET i == channel \div ChannelScale
      f == channel % ChannelScale
  IN  IF f = 0
      THEN LinearizeTable[i + 1]
      ELSE LinearizeTable[i + 1]
           + ((LinearizeTable[i + 2] - LinearizeTable[i + 1]) * f) \div ChannelScale

\* 0.2126 R + 0.7152 G + 0.0722 B, times LumScale.
luminance(r, g, b) ==
  (2126 * linearize(r) + 7152 * linearize(g) + 722 * linearize(b)) \div 10000

\* The ratio without the exchange that makes l1 the lighter.
unordered_ratio(la, lb) ==
  ((la + LumScale \div 20) * ContrastScale) \div (lb + LumScale \div 20)

\* (l1 + 0.05) / (l2 + 0.05) with l1 the lighter, times ContrastScale.
luminance_ratio(la, lb) ==
  LET l1 == IF la < lb THEN lb ELSE la
      l2 == IF la < lb THEN la ELSE lb
  IN  ((l1 + LumScale \div 20) * ContrastScale) \div (l2 + LumScale \div 20)

contrast_ratio(r1, g1, b1, r2, g2, b2) ==
  luminance_ratio(luminance(r1, g1, b1), luminance(r2, g2, b2))

\* ------------------------------------------------------ evaluate_fitness
BLACK == 0
RED == 1
GREEN == 2
YELLOW == 3
BLUE == 4
MAGENTA == 5
CYAN == 6
WHITE == 7

MAX_BASE_ON_BLACK == 7500
MIN_BRIGHT_ON_REGULAR == 2600
MIN_BR_BLACK_ON_BLACK == 2200
MIN_ON_BLUE == 2500
MIN_ON_GREEN == 2500

\* RED, GREEN, YELLOW, BLUE, MAGENTA, CYAN, WHITE
d_min_contrast == << 5500, 4500, 3500, 4500, 3500, 3500, 4500 >>

fg_on_blue == << RED, GREEN, YELLOW, MAGENTA, CYAN, WHITE >>
fg_on_green == << RED, YELLOW, BLUE, MAGENTA, CYAN, WHITE >>

\* Constraint 1: a base colour on black, per-colour minimum.
base_on_black_score(cr, min_cr) ==
  IF cr >= min_cr /\ cr <= MAX_BASE_ON_BLACK
  THEN 100 * ContrastScale + cr * 25
  ELSE IF cr < min_cr
       THEN 0 - (min_cr - cr) * 500
       ELSE 0 - (cr - MAX_BASE_ON_BLACK) * 50

\* Constraint 2: bright on regular.
bright_on_regular_score(cr, target) ==
  IF cr >= target THEN 20 * ContrastScale + cr * 2 ELSE 0 - (target - cr) * 100

\* Constraint 3: FM pairs on blue.
on_blue_score(cr) ==
  IF cr >= MIN_ON_BLUE THEN 80 * ContrastScale + cr * 15
  ELSE 0 - (MIN_ON_BLUE - cr) * 400

\* Constraint 4 with the penalty added to the score.
on_green_added(cr) ==
  IF cr >= MIN_ON_GREEN THEN 60 * ContrastScale + cr * 12
  ELSE (MIN_ON_GREEN - cr) * 350

\* Constraint 4: FM pairs on green.
on_green_score(cr) ==
  IF cr >= MIN_ON_GREEN THEN 60 * ContrastScale + cr * 12
  ELSE 0 - (MIN_ON_GREEN - cr) * 350

\* Bonus: bright colours on black.
bright_on_black_score(cr) ==
  (IF cr >= 7 * ContrastScale THEN 20 * ContrastScale ELSE 0) + cr

\* contrast_ratio(palettes[fg_base + 0 .. 2], palettes[bg_base + 0 .. 2])
slot_contrast(palette, fg, bg) ==
  contrast_ratio(chan(palette, fg, 0), chan(palette, fg, 1), chan(palette, fg, 2),
                 chan(palette, bg, 0), chan(palette, bg, 1), chan(palette, bg, 2))

\* One pass of the constraint 1 loop: what base colour fg adds to the score
\* (times ContrastScale).
base_on_black_term(palette, fg) ==
  base_on_black_score(slot_contrast(palette, fg, BLACK), d_min_contrast[fg])

\* The condition of the first branch of the constraint 1 loop: the
\* evaluator, on the channels as stored, counts base colour fg as within
\* its range on black.
base_on_black_met(palette, fg) ==
  LET cr == slot_contrast(palette, fg, BLACK)
  IN  cr >= d_min_contrast[fg] /\ cr <= MAX_BASE_ON_BLACK

\* One pass of the constraint 3 loop, inside if (d_enable_fm_pairs): what
\* foreground fg on blue adds to the score (times ContrastScale).
fm_on_blue_term(palette, fg, fm_pairs) ==
  IF fm_pairs THEN on_blue_score(slot_contrast(palette, fg, BLUE)) ELSE 0

\* fabs
fabs(x) == IF x < 0 THEN 0 - x ELSE x

\* oklch::hue_distance, on hues in whole degrees.
hue_distance(h1, h2) ==
  LET diff == fabs(h1 - h2)
  IN  IF diff > 180 THEN 360 - diff ELSE diff

\* ------------------------------------------------------------------ apca
\* Luminances and the SAPC value are held times LumScale; the Lc value
\* returned by contrast is held times 1000.
scaleBoW == 114
scaleWoB == 114
loBoWoffset == 2700
loWoBoffset == 2700
loClip == 10000
deltaYmin == 50
blkThrs == 2200

\* pow(channel / 255.0, 2.4) times LumScale, for channel = 0 .. 255.
GammaTable ==
  << 0, 0, 1, 2, 5, 8, 12, 18, 25, 33, 42, 53, 65, 79, 94, 111,
    130, 150, 173, 196, 222, 250, 279, 311, 344, 380, 417, 457, 498, 542, 588, 636,
    687, 739, 794, 851, 911, 973, 1037, 1104, 1173, 1244, 1319, 1395, 1474, 1556, 1640, 1727,
    1817, 1909, 2004, 2101, 2201, 2304, 2410, 2519, 2630, 2744, 2861, 2981, 3104, 3229, 3358, 3489,
    3624, 3761, 3901, 4045, 4191, 4341, 4493, 4649, 4807, 4969, 5134, 5302, 5473, 5648, 5825, 6006,
    6190, 6378, 6568, 6762, 6959, 7160, 7364, 7571, 7781, 7995, 8213, 8433, 8658, 8885, 9116, 9351,
    9589, 9830, 10075, 10324, 10576, 10831, 11090, 11353, 11619, 11889, 12163, 12440, 12721, 13006, 13294, 13586,
    13881, 14181, 14484, 14790, 15101, 15415, 15733, 16055, 16381, 16710, 17044, 17381, 17722, 18067, 18416, 18769,
    19125, 19486, 19850, 20219, 20591, 20968, 21348, 21732, 22121, 22513, 22909, 23310, 23714, 24123, 24536, 24952,
    25373, 25798, 26227, 26660, 27098, 27539, 27985, 28435, 28889, 29347, 29809, 30276, 30747, 31222, 31702, 32185,
    32673, 33165, 33662, 34163, 34668, 35178, 35691, 36210, 36732, 37259, 37790, 38326, 38866, 39411, 39960, 40513,
    41071, 41633, 42200, 42771, 43347, 43927, 44512, 45101, 45695, 46293, 46896, 47503, 48115, 48732, 49353, 49979,
    50609, 51244, 51883, 52527, 53176, 53830, 54488, 55151, 55818, 56490, 57167, 57849, 58535, 59226, 59922, 60622,
    61328, 62038, 62752, 63472, 64196, 64925, 65659, 66398, 67142, 67890, 68643, 69402, 70165, 70932, 71705, 72483,
    73265, 74053, 74845, 75642, 76445, 77252, 78064, 78881, 79703, 80530, 81362, 82199, 83041, 83888, 84740, 85597,
    86459, 87326, 88198, 89076, 89958, 90845, 91738, 92635, 93538, 94446, 95359, 96277, 97200, 98128, 99061, 100000 >>

\* Values of pow(y, exponent) times LumScale at y = k / PowNodes.
PowNodes == 128
pow_normBG ==
  << 0, 6606, 9740, 12222, 14359, 16270, 18019, 19643, 21169, 22612, 23986, 25301, 26565, 27782, 28960, 30100,
    31208, 32286, 33336, 34361, 35362, 36342, 37301, 38241, 39163, 40069, 40959, 41834, 42694, 43542, 44376, 45199,
    46009, 46809, 47598, 48377, 49146, 49906, 50657, 51399, 52133, 52859, 53577, 54288, 54992, 55688, 56378, 57061,
    57737, 58408, 59073, 59731, 60384, 61032, 61674, 62311, 62943, 63570, 64192, 64810, 65422, 66031, 66635, 67235,
    67830, 68422, 69009, 69593, 70173, 70749, 71321, 71890, 72455, 73017, 73575, 74130, 74682, 75231, 75777, 76319,
    76859, 77395, 77929, 78460, 78988, 79513, 80035, 80555, 81072, 81587, 82099, 82609, 83116, 83621, 84123, 84623,
    85121, 85616, 86109, 86600, 87089, 87575, 88060, 88542, 89023, 89501, 89977, 90452, 90924, 91395, 91863, 92330,
    92795, 93258, 93719, 94179, 94637, 95093, 95547, 95999, 96450, 96900, 97347, 97793, 98238, 98681, 99122, 99562,
    100000 >>
pow_normTXT ==
  << 0, 6293, 9343, 11772, 13870, 15751, 17476, 19081, 20590, 22020, 23382, 24688, 25943, 27154, 28326, 29462,
    30566, 31641, 32689, 33712, 34712, 35691, 36650, 37590, 38513, 39420, 40311, 41188, 42050, 42900, 43737, 44562,
    45376, 46179, 46971, 47754, 48527, 49291, 50046, 50792, 51531, 52261, 52984, 53699, 54407, 55109, 55804, 56492,
    57174, 57850, 58520, 59184, 59843, 60496, 61144, 61787, 62425, 63058, 63686, 64310, 64929, 65543, 66154, 66760,
    67362, 67960, 68554, 69144, 69730, 70313, 70892, 71467, 72039, 72608, 73173, 73735, 74294, 74850, 75402, 75952,
    76498, 77042, 77583, 78120, 78656, 79188, 79718, 80245, 80769, 81291, 81810, 82327, 82842, 83354, 83864, 84371,
    84876, 85379, 85879, 86378, 86874, 87368, 87860, 88350, 88838, 89324, 89808, 90290, 90770, 91248, 91724, 92199,
    92671, 93142, 93611, 94078, 94543, 95007, 95469, 95929, 96388, 96845, 97301, 97754, 98207, 98657, 99106, 99554,
    100000 >>
pow_revBG ==
  << 0, 4269, 6699, 8719, 10511, 12152, 13681, 15123, 16494, 17806, 19068, 20287, 21467, 22614, 23730, 24818,
    25882, 26922, 27941, 28940, 29921, 30886, 31834, 32767, 33686, 34592, 35485, 36366, 37236, 38095, 38944, 39783,
    40613, 41433, 42245, 43048, 43844, 44632, 45412, 46185, 46952, 47711, 48465, 49212, 49953, 50688, 51417, 52141,
    52859, 53572, 54281, 54984, 55682, 56376, 57065, 57750, 58430, 59106, 59778, 60446, 61110, 61770, 62426, 63079,
    63728, 64374, 65016, 65654, 66289, 66921, 67550, 68176, 68799, 69418, 70035, 70649, 71259, 71867, 72473, 73075,
    73675, 74273, 74867, 75460, 76049, 76637, 77221, 77804, 78384, 78962, 79537, 80111, 80682, 81251, 81818, 82382,
    82945, 83506, 84064, 84621, 85175, 85728, 86279, 86828, 87375, 87920, 88463, 89005, 89545, 90083, 90619, 91154,
    91686, 92218, 92747, 93275, 93802, 94327, 94850, 95372, 95892, 96410, 96928, 97443, 97957, 98470, 98982, 99491,
    100000 >>
pow_revTXT ==
  << 0, 4938, 7589, 9758, 11663, 13393, 14996, 16500, 17924, 19282, 20584, 21837, 23047, 24220, 25359, 26467,
    27548, 28603, 29635, 30645, 31635, 32607, 33561, 34499, 35421, 36329, 37223, 38104, 38973, 39831, 40677, 41512,
    42337, 43153, 43959, 44756, 45545, 46325, 47097, 47862, 48619, 49369, 50112, 50849, 51579, 52302, 53020, 53732,
    54438, 55138, 55833, 56523, 57207, 57887, 58562, 59232, 59897, 60558, 61215, 61867, 62515, 63159, 63799, 64435,
    65067, 65696, 66320, 66942, 67559, 68174, 68785, 69392, 69996, 70598, 71196, 71791, 72383, 72972, 73558, 74141,
    74722, 75299, 75874, 76447, 77016, 77584, 78148, 78710, 79270, 79827, 80382, 80935, 81485, 82033, 82579, 83122,
    83664, 84203, 84740, 85275, 85808, 86339, 86868, 87395, 87921, 88444, 88965, 89484, 90002, 90518, 91032, 91544,
    92054, 92563, 93070, 93576, 94079, 94581, 95082, 95580, 96078, 96573, 97067, 97560, 98051, 98540, 99028, 99515,
    100000 >>

\* pow(d, blkClmp) times LumScale at d = k / 1000, up to blkThrs.
ClampStep == 100
pow_blkClmp ==
  << 0, 6, 15, 27, 41, 56, 72, 90, 108, 128, 149, 170, 192, 215, 239, 264,
    289, 315, 341, 368, 396, 424, 453 >>

\* A tabulated power at x (x counted in 1 / scale), linear between nodes.
interpolate(table, x, scale) ==
  LET i == x \div scale
      f == x % scale
  IN  IF f = 0
      THEN table[i + 1]
      ELSE table[i + 1] + ((table[i + 2] - table[i + 1]) * f) \div scale

\* apca::srgb_to_linear
srgb_to_linear(channel) == interpolate(GammaTable, channel, ChannelScale)

\* apca::luminance: sRco, sGco, sBco.
apca_luminance(r, g, b) ==
  (2127 * srgb_to_linear(r) + 7151 * srgb_to_linear(g) + 722 * srgb_to_linear(b))
    \div 10000

\* apca::soft_clamp
soft_clamp(y) ==
  IF y > blkThrs THEN y ELSE y + interpolate(pow_blkClmp, blkThrs - y, ClampStep)

apca_pow(table, y) == interpolate(table, y * PowNodes, LumScale)

\* Normal polarity: the output for a SAPC value.
normal_output(sapc) == IF sapc < loClip THEN 0 ELSE sapc - loBoWoffset

\* The reverse branch without its clip.
reverse_unclipped(sapc) == sapc + loWoBoffset

\* Reverse polarity: the output for a SAPC value.
reverse_output(sapc) == IF sapc > 0 - loClip THEN 0 ELSE sapc + loWoBoffset

\* apca::contrast on the two luminances.
apca_lc(lum_text, lum_bg) ==
  LET txtY == soft_clamp(lum_text)
      bgY == soft_clamp(lum_bg)
      deltaY == bgY - txtY
  IN  IF fabs(deltaY) < deltaYmin THEN 0
      ELSE IF bgY > txtY
           THEN normal_output(
                  ((apca_pow(pow_normBG, bgY) - apca_pow(pow_normTXT, txtY)) * scaleBoW)
                    \div 100)
           ELSE reverse_output(
                  ((apca_pow(pow_revBG, bgY) - apca_pow(pow_revTXT, txtY)) * scaleWoB)
                    \div 100)

\* apca::contrast(text, bg), colours as triples of channels.
apca_contrast(text, bg) ==
  apca_lc(apca_luminance(text[1], text[2], text[3]),
          apca_luminance(bg[1], bg[2], bg[3]))

\* apca::contrast_abs
contrast_abs(text, bg) == fabs(apca_contrast(text, bg))

\* ----------------------------------------------------------- oklab, oklch
\* Lightness, the a and b axes, the LMS values and linear RGB are held
\* times OkScale; a chroma is counted in units of 2^-21, in which every
\* bound of the bisection is a whole number; a hue is in whole degrees.
OkScale == 10000
HalfChroma == 1048576
BisectionSteps == 20
GamutTolerance == 1

\* cos(H * PI / 180.0) times OkScale at H = 0, 15, .. 345.
HueStep == 15
CosTable ==
  << 10000, 9659, 8660, 7071, 5000, 2588, 0, 0 - 2588, 0 - 5000, 0 - 7071, 0 - 8660, 0 - 9659,
     0 - 10000, 0 - 9659, 0 - 8660, 0 - 7071, 0 - 5000, 0 - 2588, 0, 2588, 5000, 7071, 8660, 9659 >>
cos_deg(h) == CosTable[((h % 360) \div HueStep) + 1]
sin_deg(h) == cos_deg(h + 270)

\* A chroma in units of 1 / OkScale.
chroma_value(c) == (c * 625) \div 131072

\* oklch::to_oklab
to_oklab(L, C, H) ==
  [L |-> L,
   a |-> (chroma_value(C) * cos_deg(H)) \div OkScale,
   b |-> (chroma_value(C) * sin_deg(H)) \div OkScale]

\* l_ * l_ * l_
cube(x) == (((x * x) \div OkScale) * x) \div OkScale

\* oklab::to_linear_rgb
to_linear_rgb(lab) ==
  LET l_ == lab.L + (3963 * lab.a + 2158 * lab.b) \div OkScale
      m_ == lab.L - (1056 * lab.a + 639 * lab.b) \div OkScale
      s_ == lab.L - (895 * lab.a + 12915 * lab.b) \div OkScale
      l == cube(l_)
      m == cube(m_)
      s == cube(s_)
  IN  [lr |-> (40767 * l - 33077 * m + 2310 * s) \div OkScale,
       lg |-> (26097 * m - 12684 * l - 3413 * s) \div OkScale,
       lb |-> (17076 * s - 42 * l - 7034 * m) \div OkScale]

\* oklab::is_in_gamut(lab): every linear channel within [-0.0001, 1.0001].
lab_in_gamut(lab) ==
  LET rgb == to_linear_rgb(lab)
  IN  /\ rgb.lr >= 0 - GamutTolerance /\ rgb.lr <= OkScale + GamutTolerance
      /\ rgb.lg >= 0 - GamutTolerance /\ rgb.lg <= OkScale + GamutTolerance
      /\ rgb.lb >= 0 - GamutTolerance /\ rgb.lb <= OkScale + GamutTolerance

\* oklch::is_in_gamut(L, C, H)
is_in_gamut(L, C, H) == lab_in_gamut(to_oklab(L, C, H))

\* The loop of max_chroma_in_gamut from step i on; lows records the lower
\* bound after each step.
RECURSIVE bisect(_, _, _, _, _, _)
bisect(L, H, low, high, i, lows) ==
  IF i >= BisectionSteps
  THEN [low |-> low, high |-> high, lows |-> lows]
  ELSE LET mid == (low + high) \div 2
       IN  IF is_in_gamut(L, mid, H)
           THEN bisect(L, H, mid, high, i + 1, Append(lows, mid))
           ELSE bisect(L, H, low, mid, i + 1, Append(lows, low))

\* A search that returns its upper bound.
upper_bound(low, high) == high

\* return low;
bisection_result(low, high) == low

\* oklch::max_chroma_in_gamut
max_chroma_in_gamut(L, H) ==
  LET end == bisect(L, H, 0, HalfChroma, 0, << 0 >>)
  IN  [chroma |-> bisection_result(end.low, end.high), lows |-> end.lows]

\* The lower threshold a contrast constraint compares with: constraint 1
\* for base colour i, constraint 2 for regular colour i, constraints 3, 4.
constraint_minimum(kind, i) ==
  CASE kind = "base" -> d_min_contrast[i]
    [] kind = "bright" -> IF i = BLACK THEN MIN_BR_BLACK_ON_BLACK
                          ELSE MIN_BRIGHT_ON_REGULAR
    [] kind = "blue" -> MIN_ON_BLUE
    [] kind = "green" -> MIN_ON_GREEN

\* What one pair of a contrast constraint adds to the score at contrast cr
\* (times ContrastScale).
constraint_term(kind, i, cr) ==
  CASE kind = "base" -> base_on_black_score(cr, constraint_minimum(kind, i))
    [] kind = "bright" -> bright_on_regular_score(cr, constraint_minimum(kind, i))
    [] kind = "blue" -> on_blue_score(cr)
    [] kind = "green" -> on_green_score(cr)

\* luminance of one slot of a palette.
slot_luminance(palette, color) ==
  luminance(chan(palette, color, 0), chan(palette, color, 1), chan(palette, color, 2))

\* Bonus: contrast between two base colours, unless one is excluded.
distinct_score(lum, i, j, gb_exclusions) ==
  IF gb_exclusions /\ (i = GREEN \/ i = BLUE \/ j = GREEN \/ j = BLUE)
  THEN 0
  ELSE luminance_ratio(lum[i + 1], lum[j + 1]) * 2

\* The contrast terms of one thread of evaluate_fitness, in whole score
\* units.  Each slot's luminance is computed once (lum[color + 1]) and
\* shared by the contrast ratios that use it; the loops are written out.
\* The OKLCH hue, chroma and lightness terms that follow in the kernel are
\* not included: the score here is the WCAG part of the fitness.
evaluate_fitness(palette, fm_pairs, gb_exclusions) ==
  LET lum == << slot_luminance(palette, 0), slot_luminance(palette, 1),
                slot_luminance(palette, 2), slot_luminance(palette, 3),
                slot_luminance(palette, 4), slot_luminance(palette, 5),
                slot_luminance(palette, 6), slot_luminance(palette, 7),
                slot_luminance(palette, 8), slot_luminance(palette, 9),
                slot_luminance(palette, 10), slot_luminance(palette, 11),
                slot_luminance(palette, 12), slot_luminance(palette, 13),
                slot_luminance(palette, 14), slot_luminance(palette, 15) >>
      cr(a, b) == luminance_ratio(lum[a + 1], lum[b + 1])
      base(fg) == base_on_black_score(cr(fg, BLACK), d_min_contrast[fg])
      brt(i) == bright_on_regular_score(cr(i + 8, i),
                  IF i = 0 THEN MIN_BR_BLACK_ON_BLACK ELSE MIN_BRIGHT_ON_REGULAR)
      blue(i) == on_blue_score(cr(fg_on_blue[i], BLUE))
      green(i) == on_green_score(cr(fg_on_green[i], GREEN))
      dst(i, j) == distinct_score(lum, i, j, gb_exclusions)
      onblack(fg) == bright_on_black_score(cr(fg, BLACK))
      c1 == base(1) + base(2) + base(3) + base(4) + base(5) + base(6) + base(7)
      c2 == brt(0) + brt(1) + brt(2) + brt(3) + brt(4) + brt(5) + brt(6) + brt(7)
      c3 == IF fm_pairs
            THEN blue(1) + blue(2) + blue(3) + blue(4) + blue(5) + blue(6)
            ELSE 0
      c4 == IF fm_pairs
            THEN green(1) + green(2) + green(3) + green(4) + green(5) + green(6)
            ELSE 0
      c5 == dst(1, 2) + dst(1, 3) + dst(1, 4) + dst(1, 5) + dst(1, 6) + dst(1, 7)
            + dst(2, 3) + dst(2, 4) + dst(2, 5) + dst(2, 6) + dst(2, 7)
            + dst(3, 4) + dst(3, 5) + dst(3, 6) + dst(3, 7)
            + dst(4, 5) + dst(4, 6) + dst(4, 7)
            + dst(5, 6) + dst(5, 7) + dst(6, 7)
      c6 == onblack(8) + onblack(9) + onblack(10) + onblack(11) + onblack(12)
            + onblack(13) + onblack(14)
  IN  (c1 + c2 + c3 + c4 + c5 + c6) \div ContrastScale

\* ------------------------------------------------- elite selection (host)
\* The comparator of the partial_sort, with equal fitness ordered by index.
ranks_before(fit, a, b) == fit[a] > fit[b] \/ (fit[a] = fit[b] /\ a < b)

\* std::partial_sort of the index vector: the k best indices, best first.
partial_sort(fit, n, k) ==
  LET rank(i) == Cardinality({j \in 0 .. (n - 1) : ranks_before(fit, j, i)})
      top == {i \in 0 .. (n - 1) : rank(i) < k}
  IN  [r \in 1 .. k |-> CHOOSE i \in top : rank(i) = r - 1]

\* ------------------------------------------------ crossover_and_mutate
MUTATION_STEP_DIV == 10

\* (int)(curand_uniform(&localState) * elite_count)
parent_position(st, n_elite) == (curand_uniform(st) * n_elite) \div UniformLevels

\* What a read of elite_indices[n_elite], one entry past the allocation,
\* and the population read through the index found there can produce:
\* an index inside the population being read, an address inside the
\* other population buffer, or memory of neither buffer.
OutOfBoundsReads(n) ==
  { [kind |-> "cur",   idx |-> n - 1, val |-> 0],
    [kind |-> "other", idx |-> 0,     val |-> 255 * ChannelScale],
    [kind |-> "wild",  idx |-> 0,     val |-> 0],
    [kind |-> "wild",  idx |-> 0,     val |-> 255 * ChannelScale] }

\* p_idx = elite_indices[position]: where a parent is read from.
parent_source(position, elite_indices, n_elite, oob) ==
  IF position < n_elite
  THEN [kind |-> "cur", idx |-> elite_indices[position + 1], val |-> 0]
  ELSE oob

\* old_pop[p_base + color_offset + c]
parent_channel(src, k, old_pop, new_pop) ==
  IF src.kind = "cur" THEN old_pop[src.idx][k + 1]
  ELSE IF src.kind = "other" /\ new_pop[src.idx][k + 1] >= 0
       THEN new_pop[src.idx][k + 1]
       ELSE src.val

\* if (val < range_min) val = range_min; if (val > range_max) val = range_max;
clamp(val, lo, hi) == IF val < lo THEN lo ELSE IF val > hi THEN hi ELSE val

\* curand_uniform(&localState) < mutation_rate
mutation_fires(st, rate) == curand_uniform(st) * RateScale < rate * UniformLevels

\* val += curand_normal(&localState) * range_size * 0.1f, then the clamp.
mutate(val, st, lo, hi) ==
  clamp(val + (curand_normal(st) * (hi - lo) * ChannelScale)
              \div (10 * MUTATION_STEP_DIV),
        lo * ChannelScale, hi * ChannelScale)

RECURSIVE crossover_channels(_, _, _, _, _, _, _, _)
crossover_channels(k, st, palette, p1, p2, old_pop, new_pop, rate) ==
  IF k = PaletteLen
  THEN [state |-> st, palette |-> palette]
  ELSE LET range == color_ranges(k \div NumChannels)
           c == k % NumChannels
           lo == range_min(range, c)
           hi == range_max(range, c)
           s1 == curand_step(st)
           s2 == curand_step(s1)
           s3 == curand_step(s2)
           inherited == IF curand_uniform(s1) * 2 < UniformLevels
                        THEN parent_channel(p1, k, old_pop, new_pop)
                        ELSE parent_channel(p2, k, old_pop, new_pop)
           fires == mutation_fires(s2, rate)
           val == IF is_fixed(range) THEN lo * ChannelScale
                  ELSE IF fires THEN mutate(inherited, s3, lo, hi)
                  ELSE inherited
           st_out == IF is_fixed(range) THEN st ELSE IF fires THEN s3 ELSE s2
           next == Append(palette, val)
       IN  IF Len(next) = k + 1 /\ st_out >= 0
           THEN crossover_channels(k + 1, st_out, next, p1, p2, old_pop, new_pop, rate)
           ELSE [state |-> st, palette |-> palette]

\* An elite copy that takes the individual at the thread's own index.
same_index_copy(idx, old_pop, elite_indices) == old_pop[idx]

\* Elite: old_idx = elite_indices[idx]; copy the 48 values of old_idx.
elite_copy(idx, old_pop, elite_indices) == old_pop[elite_indices[idx + 1]]

\* One thread of crossover_and_mutate.  oob[w] is what the read of parent w
\* produces when its position is past the elite list.
crossover_and_mutate(idx, st, old_pop, new_pop, elite_indices, n_elite, rate, oob) ==
  IF idx < n_elite
  THEN [state |-> st, palette |-> elite_copy(idx, old_pop, elite_indices),
        pos |-> << >>]
  ELSE LET s1 == curand_step(st)
           s2 == curand_step(s1)
           pos1 == parent_position(s1, n_elite)
           pos2 == parent_position(s2, n_elite)
           p1 == parent_source(pos1, elite_indices, n_elite, oob[1])
           p2 == parent_source(pos2, elite_indices, n_elite, oob[2])
           out == crossover_channels(0, s2, << >>, p1, p2, old_pop, new_pop, rate)
       IN  [state |-> out.state, palette |-> out.palette, pos |-> << pos1, pos2 >>]

\* ------------------------------------------------ host loop of main
\* fminf(0.5f, current_mutation * 1.01f)
MUTATION_CEILING == 50000
STAGNATION_THRESHOLD == 100
MUTATION_GROWTH_PERCENT == 101

raise_mutation(rate) ==
  LET grown == (rate * MUTATION_GROWTH_PERCENT) \div 100
  IN  IF MUTATION_CEILING < grown THEN MUTATION_CEILING ELSE grown

\* A tracking step that records every generation's best, improved or not.
overwrite_best(best, palette, g, base, track) ==
  [best_ever_fitness |-> best,
   best_ever_generation |-> g,
   best_ever_palette |-> palette,
   stagnant_generations |-> 0,
   current_mutation |-> base]

\* A tracking step that never resets the stagnation counter or the rate.
track_without_reset(best, palette, g, base, track) ==
  [best_ever_fitness |->
     IF best > track.best_ever_fitness THEN best ELSE track.best_ever_fitness,
   best_ever_generation |->
     IF best > track.best_ever_fitness THEN g ELSE track.best_ever_generation,
   best_ever_palette |->
     IF best > track.best_ever_fitness THEN palette ELSE track.best_ever_palette,
   stagnant_generations |-> track.stagnant_generations + 1,
   current_mutation |->
     IF track.stagnant_generations + 1 > STAGNATION_THRESHOLD
     THEN raise_mutation(track.current_mutation) ELSE track.current_mutation]

\* The best-ever tracking and adaptive mutation of one generation: track
\* holds best_ever_fitness, best_ever_generation, best_ever_palette,
\* stagnant_generations and current_mutation; base is mutation_rate.
track_best(best, palette, g, base, track) ==
  IF best > track.best_ever_fitness
  THEN [best_ever_fitness |-> best,
        best_ever_generation |-> g,
        best_ever_palette |-> palette,
        stagnant_generations |-> 0,
        current_mutation |-> base]
  ELSE [track EXCEPT
          !.stagnant_generations = @ + 1,
          !.current_mutation =
             IF track.stagnant_generations + 1 > STAGNATION_THRESHOLD
             THEN raise_mutation(@) ELSE @]

\* A record taken from population index 0 instead of the best index.
first_palette(population, indices) == population[0]

\* A record whose palette is never copied from the device.
placeholder_palette(population, indices) == [k \in 1 .. PaletteLen |-> 0]

\* cudaMemcpy(best_ever_palette.data(), d_pop1 + best_idx * 16 * 3, ...)
\* with best_idx = indices[0].
best_palette(population, indices) == population[indices[1]]

\* gen < generations: the loop runs another generation.
loop_continues(g, n_generations) == g < n_generations

\* A loop that reproduces in every generation, the last one included.
reproduces_always(g, n_generations) == g < n_generations

\* if (gen < generations - 1): this generation reproduces.
reproduces(g, n_generations) == g < n_generations - 1

\* ----------------------------------------------- startup validation
\* if (population_size < 100)
rejects_population(p) == p < MIN_POPULATION

\* A validation that lets every generation count through.
accepts_generations(g) == FALSE

\* if (generations < 1)
rejects_generations(g) == g < MIN_GENERATIONS

\* ---------------------------------------------------- write_theme_file
HexDigits == << "0", "1", "2", "3", "4", "5", "6", "7",
                "8", "9", "a", "b", "c", "d", "e", "f" >>

\* (int)palette[k]: the float is truncated towards zero.
float_to_int(v) ==
  IF v >= 0 THEN v \div ChannelScale ELSE 0 - ((0 - v) \div ChannelScale)

\* The same values the host keeps for the report.
h_min_contrast == << 5500, 4500, 3500, 4500, 3500, 3500, 4500 >>

\* int r = (int)palette[i * 3 + c], handed to contrast_ratio as a float again.
truncated_channel(palette, i, c) ==
  float_to_int(chan(palette, i, c)) * ChannelScale

\* print_color_demo, the line of base colour i of "Base colors (1-7) on
\* black": the contrast of the truncated colour on the truncated black and
\* the status printed after it.
constraint_check(palette, i) ==
  LET cr == contrast_ratio(truncated_channel(palette, i, 0),
                           truncated_channel(palette, i, 1),
                           truncated_channel(palette, i, 2),
                           truncated_channel(palette, BLACK, 0),
                           truncated_channel(palette, BLACK, 1),
                           truncated_channel(palette, BLACK, 2))
      min_cr == h_min_contrast[i]
      status == IF cr >= min_cr /\ cr <= MAX_BASE_ON_BLACK THEN "ok"
                ELSE IF cr < min_cr THEN "too dark"
                ELSE "too bright"
  IN  [cr |-> cr, status |-> status]

\* The hexadecimal digits of n >= 0, most significant first, none for 0.
RECURSIVE hex_digits(_)
hex_digits(n) ==
  IF n = 0 THEN << >>
  ELSE Append(hex_digits(n \div 16), HexDigits[(n % 16) + 1])

\* %x: the digits without the padding to two.
format_x(n) == IF n > 0 THEN hex_digits(n) ELSE << "0" >>

\* printf's %02x of an int: the value as unsigned, in lowercase hexadecimal,
\* padded with zeros to at least two digits and never cut.
format_02x(n) ==
  LET digits == IF n >= 0 THEN hex_digits(n)
                ELSE LET m == (n + 2147483647) + 1
                     IN  << HexDigits[(m \div 268435456) + 9] >>
                           \o [k \in 1 .. 7 |->
                                 HexDigits[((m \div (16 ^ (7 - k))) % 16) + 1]]
  IN  IF Len(digits) = 0 THEN << "0", "0" >>
      ELSE IF Len(digits) = 1 THEN << "0" >> \o digits
      ELSE digits

\* "#%02x%02x%02x" of one slot of the palette.
slot_colour(palette, color) ==
  << "#" >> \o format_02x(float_to_int(chan(palette, color, 0)))
            \o format_02x(float_to_int(chan(palette, color, 1)))
            \o format_02x(float_to_int(chan(palette, color, 2)))

BR_YELLOW == 11

\* The key/value lines fprintf writes, in order (comment and empty lines
\* are left out).
theme_lines(palette) ==
  [i \in 1 .. NumColors |->
     [key |-> "palette", index |-> i - 1, value |-> slot_colour(palette, i - 1)]]
  \o << [key |-> "background", index |-> 0, value |-> slot_colour(palette, BLACK)],
        [key |-> "foreground", index |-> 0, value |-> slot_colour(palette, WHITE)],
        [key |-> "cursor-color", index |-> 0, value |-> slot_colour(palette, BR_YELLOW)],
        [key |-> "cursor-text", index |-> 0, value |-> slot_colour(palette, BLACK)],
        [key |-> "selection-background", index |-> 0,
         value |-> slot_colour(palette, BLUE)],
        [key |-> "selection-foreground", index |-> 0,
         value |-> << "#", "f", "f", "f", "f", "f", "f" >>] >>

\* What the file system can do to one call: fopen fails, fclose fails,
\* realpath fails after a good write, or all three succeed.
FileOutcomes == {"written", "open_fails", "close_fails", "realpath_fails"}

\* A writer that gives up without a message when fopen or fclose fails.
write_theme_file_silent(palette, outcome) ==
  IF outcome = "open_fails"
  THEN [file |-> [state |-> "absent", lines |-> << >>], messages |-> << >>]
  ELSE IF outcome = "close_fails"
  THEN [file |-> [state |-> "incomplete", lines |-> theme_lines(palette)],
        messages |-> << >>]
  ELSE [file |-> [state |-> "written", lines |-> theme_lines(palette)],
        messages |-> << [kind |-> "theme_written", shows |-> {"abspath"}] >>]

\* write_theme_file: the file it leaves and the messages it prints.
write_theme_file(palette, outcome) ==
  IF outcome = "open_fails"
  THEN [file |-> [state |-> "absent", lines |-> << >>],
        messages |-> << [kind |-> "open_error",
                         shows |-> {"filepath", "strerror"}] >>]
  ELSE IF outcome = "close_fails"
  THEN [file |-> [state |-> "incomplete", lines |-> theme_lines(palette)],
        messages |-> << [kind |-> "close_error",
                         shows |-> {"filepath", "strerror"}] >>]
  ELSE IF outcome = "realpath_fails"
  THEN [file |-> [state |-> "written", lines |-> theme_lines(palette)],
        messages |-> << [kind |-> "path_warning", shows |-> {"filepath"}] >>]
  ELSE [file |-> [state |-> "written", lines |-> theme_lines(palette)],
        messages |-> << [kind |-> "theme_written", shows |-> {"abspath"}] >>]

\* ------------------------------------------------------------ the state
VARIABLES
  pc,                   \* position of main
  seed,                 \* time(NULL) handed to init_curand
  population_size, generations, mutation_rate,
  enable_fm_pairs, enable_gb_exclusions,
  elite_count,
  buf,                  \* device memory of the two population buffers
  d_pop1, d_pop2,       \* the two buffer pointers
  d_states,             \* curandState per population index
  h_fitness,            \* fitness of the generation evaluated last
  h_elite_indices,
  gen_best,
  best_ever_fitness, best_ever_palette, best_ever_generation,
  stagnant_generations, current_mutation,
  gen,
  threads,              \* per thread of the last launch that wrote a population:
                        \* the generator state and palette it stored and the
                        \* positions it indexed elite_indices at
  pop_reads, pop_writes, \* buffers the last reproduction read and wrote (0: neither)
  evaluated_buf,        \* buffer the last evaluate_fitness launch read
  n_eval, n_repro,      \* launches of evaluate_fitness and crossover_and_mutate
  launch_rate,          \* mutation_rate argument of the last crossover_and_mutate launch
  history,              \* per generation: best fitness and the palettes that had it
  last_improved,        \* generation whose best last exceeded the best-ever fitness
  printed, theme,       \* palettes handed to print_color_demo and write_theme_file
  allocated,            \* the device allocations of main exist
  exit_status,          \* what main returned (RUNNING: it has not returned)
  console,              \* the error, report and confirmation messages printed, in order
  theme_file,           \* what write_theme_file left on disk
  fn_in, fn_out,        \* argument and result of a function applied on its own
  flight,               \* kernels launched and not finished, in stream order,
                        \* each with the threads that have not finished
  n_sync                \* cudaDeviceSynchronize calls returned, per kernel waited for

params == << seed, population_size, generations, mutation_rate,
             enable_fm_pairs, enable_gb_exclusions, elite_count >>
pointers == << d_pop1, d_pop2 >>
host_track == << gen_best, best_ever_fitness, best_ever_palette,
                 best_ever_generation, stagnant_generations, current_mutation,
                 history, last_improved >>
kernel_log == << threads, pop_reads, pop_writes >>
launches == << evaluated_buf, n_eval, n_repro, launch_rate >>
outputs == << printed, theme >>
process == << allocated, exit_status, console, theme_file >>
harness == << fn_in, fn_out, flight, n_sync >>

vars == << pc, params, buf, pointers, d_states, h_fitness, h_elite_indices,
           host_track, gen, kernel_log, launches, outputs, process, harness >>

Seeds == 0 .. (NumSeeds - 1)
PopulationSizes == {MIN_POPULATION - 1, MIN_POPULATION}
MutationRates == {15000}
Indeterminate == 0 - 1
BEST_EVER_INIT == 0 - 1000000000
NO_LAUNCH == 0 - 1
RUNNING == 0 - 1
NO_FILE == [state |-> "absent", lines |-> << >>]
NOT_APPLIED == [fn |-> "none"]

Individuals == 0 .. (population_size - 1)

\* main up to the start of the loop, before the init launches.
HostInit ==
  /\ enable_fm_pairs = TRUE
  /\ enable_gb_exclusions = TRUE
  /\ d_pop1 = 1
  /\ d_pop2 = 2
  /\ h_elite_indices = << >>
  /\ gen_best = 0
  /\ best_ever_fitness = BEST_EVER_INIT
  /\ best_ever_palette = [k \in 1 .. PaletteLen |-> 0]
  /\ best_ever_generation = 0
  /\ stagnant_generations = 0
  /\ current_mutation = mutation_rate
  /\ gen = 0
  /\ threads = << >>
  /\ pop_reads = {}
  /\ pop_writes = {}
  /\ evaluated_buf = 0
  /\ n_eval = 0
  /\ n_repro = 0
  /\ launch_rate = NO_LAUNCH
  /\ history = << >>
  /\ last_improved = 0 - 1
  /\ printed = << >>
  /\ theme = << >>
  /\ exit_status = RUNNING
  /\ console = << >>
  /\ theme_file = NO_FILE

\* No kernel is followed thread by thread.
StreamIdle ==
  /\ flight = << >>
  /\ n_sync = [init |-> 0, evaluate |-> 0, reproduce |-> 0]

\* No function is applied on its own.
HarnessIdle ==
  /\ fn_in = NOT_APPLIED
  /\ fn_out = NOT_APPLIED
  /\ StreamIdle

\* main after argument parsing: -p and -g can carry any integer.
Init ==
  /\ pc = "validate"
  /\ seed \in Seeds
  /\ population_size \in PopulationSizes
  /\ generations \in (MIN_GENERATIONS - 1) .. MaxGenerations
  /\ mutation_rate \in MutationRates
  /\ elite_count = elite_count_of(population_size)
  /\ allocated = FALSE
  /\ buf = << >>
  /\ d_states = << >>
  /\ h_fitness = << >>
  /\ HostInit
  /\ HarnessIdle

\* Validate parameters: either test failing prints its error and returns 1.
Validate ==
  /\ pc = "validate"
  /\ IF rejects_population(population_size)
     THEN /\ console' = Append(console, [kind |-> "population_error",
                                         shows |-> {"population_size"}])
          /\ exit_status' = 1
          /\ pc' = "exited"
     ELSE IF rejects_generations(generations)
     THEN /\ console' = Append(console, [kind |-> "generations_error",
                                         shows |-> {"generations"}])
          /\ exit_status' = 1
          /\ pc' = "exited"
     ELSE /\ console' = console
          /\ exit_status' = exit_status
          /\ pc' = "device"
  /\ UNCHANGED << params, buf, pointers, d_states, h_fitness, h_elite_indices,
                  host_track, gen, kernel_log, launches, outputs, allocated,
                  theme_file, harness >>

\* Check CUDA: without a device main returns 1; with one it copies the
\* ranges and flags to the device and allocates the buffers.
CheckDeviceAndAllocate ==
  /\ pc = "device"
  /\ \E deviceCount \in {0, 1} :
       IF deviceCount = 0
       THEN /\ console' = Append(console, [kind |-> "no_device", shows |-> {}])
            /\ exit_status' = 1
            /\ pc' = "exited"
            /\ UNCHANGED << allocated, buf, d_states, h_fitness >>
       ELSE /\ allocated' = TRUE
            /\ buf' = [b \in {1, 2} |->
                         [i \in 0 .. (population_size - 1) |->
                            [k \in 1 .. PaletteLen |-> Indeterminate]]]
            /\ d_states' = [i \in 0 .. (population_size - 1) |-> 0]
            /\ h_fitness' = [i \in 0 .. (population_size - 1) |-> 0]
            /\ pc' = "init"
            /\ UNCHANGED << console, exit_status >>
  /\ UNCHANGED << params, pointers, h_elite_indices, host_track, gen, kernel_log,
                  launches, outputs, theme_file, harness >>

\* init_curand and init_population launches and their synchronisation.
InitPopulation ==
  /\ pc = "init"
  /\ threads' = [i \in Individuals |-> init_population(i, curand_init(seed, i))]
  /\ buf' = [buf EXCEPT ![d_pop1] = [i \in Individuals |-> threads'[i].palette]]
  /\ d_states' = [i \in Individuals |-> threads'[i].state]
  /\ pc' = "evaluate"
  /\ UNCHANGED << params, pointers, h_fitness, h_elite_indices, host_track, gen,
                  pop_reads, pop_writes, launches, outputs, process, harness >>

\* A thread that reads the first individual whatever its index.
unindexed_palette(palettes, idx) == palettes[0]

\* int base = idx * 16 * 3: the 48 floats thread idx reads.
evaluated_palette(palettes, idx) == palettes[idx]

\* The evaluate_fitness launch, its synchronisation and the copy of the
\* fitness array to the host.
EvaluateFitness ==
  /\ pc = "evaluate"
  /\ h_fitness' = [i \in Individuals |->
                     evaluate_fitness(evaluated_palette(buf[d_pop1], i),
                                      enable_fm_pairs, enable_gb_exclusions)]
  /\ evaluated_buf' = d_pop1
  /\ n_eval' = n_eval + 1
  /\ pc' = "select"
  /\ UNCHANGED << params, buf, pointers, d_states, h_elite_indices, host_track,
                  gen, kernel_log, n_repro, launch_rate, outputs,
                  process, harness >>

\* The host's record of one generation, given its best fitness and palette.
Track(best, palette) ==
  LET t == track_best(best, palette, gen, mutation_rate,
             [best_ever_fitness |-> best_ever_fitness,
              best_ever_generation |-> best_ever_generation,
              best_ever_palette |-> best_ever_palette,
              stagnant_generations |-> stagnant_generations,
              current_mutation |-> current_mutation])
  IN  /\ gen_best' = best
      /\ best_ever_fitness' = t.best_ever_fitness
      /\ best_ever_generation' = t.best_ever_generation
      /\ best_ever_palette' = t.best_ever_palette
      /\ stagnant_generations' = t.stagnant_generations
      /\ current_mutation' = t.current_mutation
      /\ last_improved' = IF best > best_ever_fitness THEN gen ELSE last_improved

\* Host: elite selection, best-ever tracking and adaptive mutation.
SelectElites ==
  /\ pc = "select"
  /\ h_elite_indices' = partial_sort(h_fitness, population_size, elite_count)
  /\ Track(h_fitness[h_elite_indices'[1]], best_palette(buf[d_pop1], h_elite_indices'))
  /\ LET top == CHOOSE f \in {h_fitness[i] : i \in Individuals} :
                  \A i \in Individuals : h_fitness[i] <= f
     IN  history' = Append(history,
                      [best |-> top,
                       palettes |-> {buf[evaluated_buf][i] :
                                       i \in {j \in Individuals : h_fitness[j] = top}}])
  /\ pc' = "reproduce"
  /\ UNCHANGED << params, buf, pointers, d_states, h_fitness, gen, kernel_log,
                  launches, outputs, process, harness >>

\* The parents whose position falls past the elite list.
out_of_bounds_parents ==
  {p \in (elite_count .. (population_size - 1)) \X {1, 2} :
     LET s1 == curand_step(d_states[p[1]])
         s == IF p[2] = 1 THEN s1 ELSE curand_step(s1)
     IN  parent_position(s, elite_count) >= elite_count}

\* What the out-of-bounds parent reads of one launch produce, one outcome
\* for each of them.
Resolutions == [out_of_bounds_parents -> OutOfBoundsReads(population_size)]

\* One launch of crossover_and_mutate: thread i works on d_states[i] and
\* writes individual i of new_pop.
reproduction(resolve) ==
  LET oob(i) == [w \in {1, 2} |->
                   IF << i, w >> \in out_of_bounds_parents
                   THEN resolve[<< i, w >>]
                   ELSE [kind |-> "cur", idx |-> 0, val |-> 0]]
  IN  [i \in Individuals |->
         crossover_and_mutate(i, d_states[i], buf[d_pop1], buf[d_pop2],
                              h_elite_indices, elite_count,
                              current_mutation, oob(i))]

\* Not the final generation: copy the elite list to the device, launch
\* crossover_and_mutate, synchronise, swap the two pointers.
ReproduceAndSwap ==
  /\ pc = "reproduce"
  /\ reproduces(gen, generations)
  /\ \E resolve \in Resolutions :
       /\ threads' = reproduction(resolve)
       /\ pop_reads' = {d_pop1}
            \cup {d_pop2 : p \in {q \in out_of_bounds_parents :
                                    resolve[q].kind = "other"}}
            \cup {0 : p \in {q \in out_of_bounds_parents :
                               resolve[q].kind = "wild"}}
  /\ buf' = [buf EXCEPT ![d_pop2] = [i \in Individuals |-> threads'[i].palette]]
  /\ d_states' = [i \in Individuals |-> threads'[i].state]
  /\ pop_writes' = {d_pop2}
  /\ d_pop1' = d_pop2
  /\ d_pop2' = d_pop1
  /\ n_repro' = n_repro + 1
  /\ launch_rate' = current_mutation
  /\ gen' = gen + 1
  /\ pc' = IF loop_continues(gen + 1, generations) THEN "evaluate" ELSE "output"
  /\ UNCHANGED << params, h_fitness, h_elite_indices, host_track, evaluated_buf,
                  n_eval, outputs, process, harness >>

\* The final generation: nothing is reproduced.
LastGeneration ==
  /\ pc = "reproduce"
  /\ ~reproduces(gen, generations)
  /\ gen' = gen + 1
  /\ pc' = IF loop_continues(gen + 1, generations) THEN "evaluate" ELSE "output"
  /\ UNCHANGED << params, buf, pointers, d_states, h_fitness, h_elite_indices,
                  host_track, kernel_log, launches, outputs, process, harness >>

\* print_color_demo(best_ever_palette).
Output ==
  /\ pc = "output"
  /\ printed' = best_ever_palette
  /\ console' = Append(console, [kind |-> "color_demo", shows |-> {"palette"}])
  /\ pc' = "write"
  /\ UNCHANGED << params, buf, pointers, d_states, h_fitness, h_elite_indices,
                  host_track, gen, kernel_log, launches, theme, allocated,
                  exit_status, theme_file, harness >>

\* write_theme_file(best_ever_palette, output_file), the five cudaFree
\* calls and return 0.
WriteThemeAndExit ==
  /\ pc = "write"
  /\ theme' = best_ever_palette
  /\ \E outcome \in FileOutcomes :
       LET w == write_theme_file(best_ever_palette, outcome)
       IN  /\ theme_file' = w.file
           /\ console' = console \o w.messages
  /\ allocated' = FALSE
  /\ exit_status' = 0
  /\ pc' = "done"
  /\ UNCHANGED << params, buf, pointers, d_states, h_fitness, h_elite_indices,
                  host_track, gen, kernel_log, launches, printed, harness >>

Next ==
  \/ Validate
  \/ CheckDeviceAndAllocate
  \/ InitPopulation
  \/ EvaluateFitness
  \/ SelectElites
  \/ ReproduceAndSwap
  \/ LastGeneration
  \/ Output
  \/ WriteThemeAndExit

Spec == Init /\ [][Next]_vars

\* ------------------------------------------- the host bookkeeping alone
\* The loop of main with the launches left out: each generation's best
\* fitness is any of FitnessSamples, so that runs long enough to pass the
\* stagnation threshold can be followed.
AdaptGenerations == 115
AdaptRates == {15000, 45000, 80000}
FitnessSamples == {0 - 1500, 2300}
SamplePalette == [k \in 1 .. PaletteLen |-> 0]

AdaptInit ==
  /\ pc = "select"
  /\ seed = 0
  /\ population_size = MIN_POPULATION
  /\ generations = AdaptGenerations
  /\ mutation_rate \in AdaptRates
  /\ elite_count = elite_count_of(population_size)
  /\ buf = << >>
  /\ d_states = << >>
  /\ h_fitness = << >>
  /\ allocated = TRUE
  /\ HostInit
  /\ HarnessIdle

AdaptTrack ==
  /\ pc = "select"
  /\ \E best \in FitnessSamples :
       /\ Track(best, SamplePalette)
       /\ history' = << >>
  /\ pc' = "reproduce"
  /\ UNCHANGED << params, buf, pointers, d_states, h_fitness, h_elite_indices,
                  gen, kernel_log, launches, outputs, process, harness >>

AdaptAdvance ==
  /\ pc = "reproduce"
  /\ launch_rate' = IF reproduces(gen, generations) THEN current_mutation
                    ELSE launch_rate
  /\ gen' = gen + 1
  /\ pc' = IF loop_continues(gen + 1, generations) THEN "select" ELSE "output"
  /\ UNCHANGED << params, buf, pointers, d_states, h_fitness, h_elite_indices,
                  host_track, kernel_log, evaluated_buf, n_eval, n_repro, outputs,
                  process, harness >>

AdaptNext == AdaptTrack \/ AdaptAdvance \/ Output \/ WriteThemeAndExit

SpecAdapt == AdaptInit /\ [][AdaptNext]_vars

\* ------------------------------------------ functions applied on their own
\* One function of the program is applied to one argument drawn from a
\* sample set; main does not run.
ProgramIdle ==
  /\ seed = 0
  /\ population_size = MIN_POPULATION
  /\ generations = MIN_GENERATIONS
  /\ mutation_rate \in MutationRates
  /\ elite_count = elite_count_of(population_size)
  /\ allocated = FALSE
  /\ buf = << >>
  /\ d_states = << >>
  /\ h_fitness = << >>
  /\ HostInit

\* Channel values a palette handed to write_theme_file is built from: the
\* ends of [0, 255], values on both sides of 16 and fractional values, then
\* (past InRangeChannels) values outside [0, 255].
ThemeChannels == << 0, 9999, 10000, 15999, 16000, 127500, 200400, 255000,
                    255999, 256000, 0 - 1000 >>
InRangeChannels == Len(ThemeChannels) - 3
ThemeShifts == 0 .. (Len(ThemeChannels) - 1)

\* Slot s, channel c holds sample x + s * y + c * z, counted modulo n.
theme_sample(x, y, z, n) ==
  [k \in 1 .. PaletteLen |->
     ThemeChannels[((x + ((k - 1) \div NumChannels) * y + ((k - 1) % NumChannels) * z)
                      % n) + 1]]

ThemeInputs ==
  {[fn |-> "write_theme_file", palette |-> theme_sample(x, y, z, n), outcome |-> o] :
     x \in ThemeShifts, y \in {0, 3}, z \in {0, 1}, n \in {InRangeChannels, Len(ThemeChannels)},
     o \in {"written", "open_fails"}}

\* Colours the fitness terms are applied to: greys whose contrast on black
\* lies on both sides of each minimum and of the 7.5 maximum, and the
\* saturated primaries.
TermGreys == << 0, 60, 95, 100, 110, 118, 130, 131, 150, 155, 255 >>
TermColours ==
  {<< TermGreys[k], TermGreys[k], TermGreys[k] >> : k \in 1 .. Len(TermGreys)}
    \cup {<< 255, 0, 0 >>, << 0, 255, 0 >>, << 0, 0, 255 >>, << 92, 92, 255 >>}

\* A palette with slot fg set to colour c1, slot bg to colour c2, and the
\* other slots black.
two_colour_palette(fg, c1, bg, c2) ==
  [k \in 1 .. PaletteLen |->
     LET slot == (k - 1) \div NumChannels
         c == ((k - 1) % NumChannels) + 1
     IN  IF slot = fg THEN c1[c] * ChannelScale
         ELSE IF slot = bg THEN c2[c] * ChannelScale
         ELSE 0]

BaseOnBlackInputs ==
  {[fn |-> "base_on_black", fg |-> fg,
    palette |-> two_colour_palette(fg, c, BLACK, << 0, 0, 0 >>)] :
     fg \in RED .. WHITE, c \in TermColours}

\* Blues the foregrounds are set against.
TermBlues == {<< 0, 0, 255 >>, << 60, 60, 200 >>}

FmOnBlueInputs ==
  {[fn |-> "fm_on_blue", fg |-> fg, fm_pairs |-> f,
    palette |-> two_colour_palette(fg, c, BLUE, b)] :
     fg \in {fg_on_blue[k] : k \in 1 .. Len(fg_on_blue)}, c \in TermColours,
     b \in TermBlues, f \in BOOLEAN}

\* int is 32 bits wide: the largest value, written so that no part of the
\* expression exceeds it.
IntMax == (2 ^ 30 - 1) * 2 + 1
LimbBase == 2 ^ 16

\* n * 16 * 3 in int, n >= 0. overflow: the product does not fit (the first
\* factor 16 overflows only where 48 does). value: the product where it
\* fits, and otherwise the two's-complement wrap of it, computed on 16-bit
\* limbs.
times_16_3(n) ==
  LET lo == (n % LimbBase) * PaletteLen
      hi == (n \div LimbBase) * PaletteLen + (lo \div LimbBase)
      h16 == hi % LimbBase
      wrapped == IF h16 >= LimbBase \div 2
                 THEN (h16 - LimbBase) * LimbBase + (lo % LimbBase)
                 ELSE h16 * LimbBase + (lo % LimbBase)
  IN  [overflow |-> n > IntMax \div PaletteLen,
       value |-> wrapped]

\* What a build may make of a signed overflow, which the language leaves
\* undefined: the product wrapped to 32 bits, or the product carried out
\* in the 64 bits of the size_t or pointer it is converted to.
Builds == {"wraps", "widens"}

\* Whether the 48 floats of individual idx lie inside a population buffer:
\* cudaMalloc(&d_pop1, palette_size) against d_pop1 + idx * 16 * 3. A
\* wrapped negative size converts to a size_t no device can allocate.
inside_buffer(n_palettes, idx, build) ==
  LET size == times_16_3(n_palettes)
      offset == times_16_3(idx)
  IN  IF build = "widens" /\ (size.overflow \/ offset.overflow)
      THEN idx < n_palettes
      ELSE /\ size.value > 0
           /\ offset.value >= 0
           /\ offset.value <= size.value - PaletteLen

\* Hues in degrees: hues of colours (0 up to 360), and doubles outside
\* that interval, which the parameters' type admits as well.
Hues == {0 - 360, 0 - 90, 0, 10, 30, 90, 180, 181, 350, 359, 360, 400, 540, 720}

HueDistanceInputs == {[fn |-> "hue_distance", h1 |-> a, h2 |-> b] : a \in Hues, b \in Hues}

\* Pairs of colours with integer channels in 0..255.
ContrastInputs ==
  {[fn |-> "contrast_ratio", c1 |-> a, c2 |-> b] : a \in TermColours, b \in TermColours}

\* Text and background colours with integer channels in 0..255.
ApcaInputs ==
  {[fn |-> "apca_contrast", text |-> a, bg |-> b] : a \in TermColours, b \in TermColours}

\* Lightness from 0 to 1 in tenths, hue every HueStep degrees.
GamutInputs ==
  {[fn |-> "max_chroma_in_gamut", L |-> (k * OkScale) \div 10, H |-> h * HueStep] :
     k \in 0 .. 10, h \in 0 .. ((360 \div HueStep) - 1)}

\* Population sizes that pass validation: the smallest, sizes on both
\* sides of a multiple of ten, the default, sizes around 2^24 (from where a
\* float no longer holds every int), sizes around 2^31 / 48 and the largest int.
LargePopulations ==
  {100, 101, 109, 110, 1000, 200000, 16777215, 16777216, 16777217, 16777219,
   16777239, 44739242, 44739243, 100000000, 2147483647}

EliteCountInputs == {[fn |-> "elite_count", population_size |-> p] : p \in LargePopulations}

\* Contrast ratios (times ContrastScale) from 1 to 21, on both sides of
\* every threshold.
TermContrasts ==
  {1000, 1500, 2199, 2200, 2499, 2500, 2599, 2600, 3000, 3499, 3500, 4499, 4500,
   5499, 5500, 7000, 7500, 7501, 10000, 21000}

ConstraintPairs ==
  ({"base"} \X (RED .. WHITE)) \cup ({"bright"} \X (BLACK .. WHITE))
    \cup ({"blue"} \X {fg_on_blue[k] : k \in 1 .. Len(fg_on_blue)})
    \cup ({"green"} \X {fg_on_green[k] : k \in 1 .. Len(fg_on_green)})

ConstraintInputs ==
  {[fn |-> "constraint_term", kind |-> p[1], index |-> p[2], cr |-> cr] :
     p \in ConstraintPairs, cr \in TermContrasts}

\* For each base colour a colour inside its range (ColorRangeTable) whose
\* contrast on black lies just under the minimum (yellow and white have
\* none: every colour of their ranges is brighter), and one well inside.
RangeColours ==
  << {<< 140, 125, 140 >>, << 200, 100, 100 >>},
     {<< 0, 130, 119 >>, << 60, 150, 60 >>},
     {<< 200, 160, 0 >>},
     {<< 0, 106, 253 >>, << 80, 140, 200 >>},
     {<< 140, 8, 245 >>, << 200, 90, 200 >>},
     {<< 0, 82, 241 >>, << 50, 140, 160 >>},
     {<< 180, 180, 180 >>} >>

\* Fractional parts of a mutated channel, in units of 1 / ChannelScale.
ChannelFractions == {0, 500, 999}

\* A palette as the population holds it: black fixed, slot fg at colour c
\* plus the fraction on each channel its range lets move, the others black.
fractional_palette(fg, c, frac) ==
  [k \in 1 .. PaletteLen |->
     LET slot == (k - 1) \div NumChannels
         ch == (k - 1) % NumChannels
         range == color_ranges(fg)
     IN  IF slot # fg THEN 0
         ELSE IF c[ch + 1] < range_max(range, ch)
              THEN c[ch + 1] * ChannelScale + frac
              ELSE c[ch + 1] * ChannelScale]

ConstraintCheckInputs ==
  UNION {{[fn |-> "constraint_check", fg |-> fg,
           palette |-> fractional_palette(fg, c, frac)] :
            c \in RangeColours[fg], frac \in ChannelFractions} :
         fg \in RED .. WHITE}

\* Population sizes with the first and the last individual, and one in
\* the middle as best_idx.
AddressingInputs ==
  UNION {{[fn |-> "addressing", population_size |-> p, idx |-> i] :
            i \in {0, p \div 2, p - 1}} : p \in LargePopulations}

FnInputs ==
  ThemeInputs \cup BaseOnBlackInputs \cup FmOnBlueInputs \cup HueDistanceInputs
    \cup ContrastInputs \cup ApcaInputs \cup GamutInputs \cup EliteCountInputs
    \cup ConstraintInputs \cup ConstraintCheckInputs
    \cup AddressingInputs

FnInit ==
  /\ pc = "apply"
  /\ fn_in \in FnInputs
  /\ fn_out = NOT_APPLIED
  /\ StreamIdle
  /\ ProgramIdle

ApplyWriteThemeFile ==
  /\ pc = "apply"
  /\ fn_in.fn = "write_theme_file"
  /\ fn_out' = [fn |-> "write_theme_file",
                result |-> write_theme_file(fn_in.palette, fn_in.outcome)]
  /\ pc' = "applied"
  /\ UNCHANGED << params, buf, pointers, d_states, h_fitness, h_elite_indices,
                  host_track, gen, kernel_log, launches, outputs, process, fn_in,
                  flight, n_sync >>

ApplyBaseOnBlack ==
  /\ pc = "apply"
  /\ fn_in.fn = "base_on_black"
  /\ fn_out' = [fn |-> "base_on_black",
                result |-> base_on_black_term(fn_in.palette, fn_in.fg)]
  /\ pc' = "applied"
  /\ UNCHANGED << params, buf, pointers, d_states, h_fitness, h_elite_indices,
                  host_track, gen, kernel_log, launches, outputs, process, fn_in,
                  flight, n_sync >>

ApplyFmOnBlue ==
  /\ pc = "apply"
  /\ fn_in.fn = "fm_on_blue"
  /\ fn_out' = [fn |-> "fm_on_blue",
                result |-> fm_on_blue_term(fn_in.palette, fn_in.fg, fn_in.fm_pairs)]
  /\ pc' = "applied"
  /\ UNCHANGED << params, buf, pointers, d_states, h_fitness, h_elite_indices,
                  host_track, gen, kernel_log, launches, outputs, process, fn_in,
                  flight, n_sync >>

ApplyHueDistance ==
  /\ pc = "apply"
  /\ fn_in.fn = "hue_distance"
  /\ fn_out' = [fn |-> "hue_distance", result |-> hue_distance(fn_in.h1, fn_in.h2)]
  /\ pc' = "applied"
  /\ UNCHANGED << params, buf, pointers, d_states, h_fitness, h_elite_indices,
                  host_track, gen, kernel_log, launches, outputs, process, fn_in,
                  flight, n_sync >>

\* contrast_ratio applied to the pair in both orders.
ApplyContrastRatio ==
  /\ pc = "apply"
  /\ fn_in.fn = "contrast_ratio"
  /\ LET a == [c \in 1 .. 3 |-> fn_in.c1[c] * ChannelScale]
         b == [c \in 1 .. 3 |-> fn_in.c2[c] * ChannelScale]
     IN  fn_out' = [fn |-> "contrast_ratio",
                    forward |-> contrast_ratio(a[1], a[2], a[3], b[1], b[2], b[3]),
                    backward |-> contrast_ratio(b[1], b[2], b[3], a[1], a[2], a[3])]
  /\ pc' = "applied"
  /\ UNCHANGED << params, buf, pointers, d_states, h_fitness, h_elite_indices,
                  host_track, gen, kernel_log, launches, outputs, process, fn_in,
                  flight, n_sync >>

\* apca::contrast for the pair, for the exchanged pair and for the text
\* colour against itself, and apca::contrast_abs for the pair.
ApplyApcaContrast ==
  /\ pc = "apply"
  /\ fn_in.fn = "apca_contrast"
  /\ LET text == [c \in 1 .. 3 |-> fn_in.text[c] * ChannelScale]
         bg == [c \in 1 .. 3 |-> fn_in.bg[c] * ChannelScale]
     IN  fn_out' = [fn |-> "apca_contrast",
                    forward |-> apca_contrast(text, bg),
                    backward |-> apca_contrast(bg, text),
                    same |-> apca_contrast(text, text),
                    absolute |-> contrast_abs(text, bg)]
  /\ pc' = "applied"
  /\ UNCHANGED << params, buf, pointers, d_states, h_fitness, h_elite_indices,
                  host_track, gen, kernel_log, launches, outputs, process, fn_in,
                  flight, n_sync >>

ApplyMaxChromaInGamut ==
  /\ pc = "apply"
  /\ fn_in.fn = "max_chroma_in_gamut"
  /\ fn_out' = [fn |-> "max_chroma_in_gamut",
                result |-> max_chroma_in_gamut(fn_in.L, fn_in.H)]
  /\ pc' = "applied"
  /\ UNCHANGED << params, buf, pointers, d_states, h_fitness, h_elite_indices,
                  host_track, gen, kernel_log, launches, outputs, process, fn_in,
                  flight, n_sync >>

ApplyEliteCount ==
  /\ pc = "apply"
  /\ fn_in.fn = "elite_count"
  /\ fn_out' = [fn |-> "elite_count", result |-> elite_count_of(fn_in.population_size)]
  /\ pc' = "applied"
  /\ UNCHANGED << params, buf, pointers, d_states, h_fitness, h_elite_indices,
                  host_track, gen, kernel_log, launches, outputs, process, fn_in,
                  flight, n_sync >>

\* The term of one constraint pair at the given contrast, and at the
\* contrasts one unit below the lower threshold and one unit above
\* MAX_BASE_ON_BLACK.
ApplyConstraintTerm ==
  /\ pc = "apply"
  /\ fn_in.fn = "constraint_term"
  /\ fn_out' = [fn |-> "constraint_term",
                term |-> constraint_term(fn_in.kind, fn_in.index, fn_in.cr),
                below |-> constraint_term(fn_in.kind, fn_in.index,
                            constraint_minimum(fn_in.kind, fn_in.index) - 1),
                above |-> constraint_term(fn_in.kind, fn_in.index,
                                          MAX_BASE_ON_BLACK + 1)]
  /\ pc' = "applied"
  /\ UNCHANGED << params, buf, pointers, d_states, h_fitness, h_elite_indices,
                  host_track, gen, kernel_log, launches, outputs, process, fn_in,
                  flight, n_sync >>

\* The evaluator's verdict on base colour fg of the palette, the line the
\* final report prints for it, and the channels write_theme_file puts into
\* "palette = fg=#rrggbb".
ApplyConstraintCheck ==
  /\ pc = "apply"
  /\ fn_in.fn = "constraint_check"
  /\ fn_out' = [fn |-> "constraint_check",
                met |-> base_on_black_met(fn_in.palette, fn_in.fg),
                real |-> slot_contrast(fn_in.palette, fn_in.fg, BLACK),
                check |-> constraint_check(fn_in.palette, fn_in.fg),
                emitted |-> [c \in 0 .. (NumChannels - 1) |->
                               float_to_int(chan(fn_in.palette, fn_in.fg, c))]]
  /\ pc' = "applied"
  /\ UNCHANGED << params, buf, pointers, d_states, h_fitness, h_elite_indices,
                  host_track, gen, kernel_log, launches, outputs, process, fn_in,
                  flight, n_sync >>

\* The allocation of the population buffers for a validated population
\* size and the addressing of individual idx in them, as one of the builds
\* carries it out.
ApplyAddressing ==
  /\ pc = "apply"
  /\ fn_in.fn = "addressing"
  /\ fn_in.population_size >= MIN_POPULATION
  /\ \E build \in Builds :
       LET size == times_16_3(fn_in.population_size)
           offset == times_16_3(fn_in.idx)
       IN  /\ (~size.overflow /\ ~offset.overflow) => build = "wraps"
           /\ fn_out' = [fn |-> "addressing", build |-> build,
                         size |-> size, offset |-> offset,
                         inside |-> inside_buffer(fn_in.population_size,
                                                  fn_in.idx, build)]
  /\ pc' = "applied"
  /\ UNCHANGED << params, buf, pointers, d_states, h_fitness, h_elite_indices,
                  host_track, gen, kernel_log, launches, outputs, process, fn_in,
                  flight, n_sync >>

FnNext ==
  \/ ApplyWriteThemeFile
  \/ ApplyBaseOnBlack
  \/ ApplyFmOnBlue
  \/ ApplyHueDistance
  \/ ApplyContrastRatio
  \/ ApplyApcaContrast
  \/ ApplyMaxChromaInGamut
  \/ ApplyEliteCount
  \/ ApplyConstraintTerm
  \/ ApplyConstraintCheck
  \/ ApplyAddressing

SpecFn == FnInit /\ [][FnNext]_vars

\* ------------------------------------- launches and synchronisation
\* The launches and synchronisation calls of main followed thread by
\* thread, with SyncThreads threads per kernel and the data left out.  A
\* launch returns at once; the kernels of the one stream run in launch
\* order; a thread of the kernel at the head of the stream may finish at
\* any time.
SyncThreads == 3
GpuThreads == 1 .. SyncThreads

\* A call that does not wait for the device.
returns_at_once(stream) == TRUE

\* cudaDeviceSynchronize returns once every launched kernel has finished.
device_idle(stream) == stream = << >>

\* A blocking cudaMemcpy runs after the work already in the stream.
stream_drained(stream) == stream = << >>

\* kernel<<<numBlocks, blockSize>>>(...)
launch(stream, kernel) == Append(stream, [kernel |-> kernel, pending |-> GpuThreads])

SyncInit ==
  /\ pc = "init"
  /\ seed = 0
  /\ population_size = MIN_POPULATION
  /\ generations \in MIN_GENERATIONS .. MaxGenerations
  /\ mutation_rate \in MutationRates
  /\ elite_count = elite_count_of(population_size)
  /\ allocated = TRUE
  /\ buf = << >>
  /\ d_states = << >>
  /\ h_fitness = << >>
  /\ HostInit
  /\ HarnessIdle

\* One thread of the kernel at the head of the stream finishes.
GpuThreadFinishes ==
  /\ flight # << >>
  /\ \E t \in flight[1].pending :
       flight' = IF flight[1].pending = {t} THEN Tail(flight)
                 ELSE [flight EXCEPT ![1].pending = @ \ {t}]
  /\ UNCHANGED << pc, params, buf, pointers, d_states, h_fitness, h_elite_indices,
                  host_track, gen, kernel_log, launches, outputs, process,
                  fn_in, fn_out, n_sync >>

\* init_curand<<<...>>>; init_population<<<...>>>
SyncLaunchInit ==
  /\ pc = "init"
  /\ flight' = launch(launch(flight, "init_curand"), "init_population")
  /\ pc' = "sync_init"
  /\ UNCHANGED << params, buf, pointers, d_states, h_fitness, h_elite_indices,
                  host_track, gen, kernel_log, launches, outputs, process,
                  fn_in, fn_out, n_sync >>

\* cudaDeviceSynchronize() after the init launches.
SyncAfterInit ==
  /\ pc = "sync_init"
  /\ device_idle(flight)
  /\ n_sync' = [n_sync EXCEPT !.init = @ + 1]
  /\ pc' = IF loop_continues(gen, generations) THEN "evaluate" ELSE "output"
  /\ UNCHANGED << params, buf, pointers, d_states, h_fitness, h_elite_indices,
                  host_track, gen, kernel_log, launches, outputs, process,
                  fn_in, fn_out, flight >>

\* evaluate_fitness<<<...>>>
SyncLaunchEvaluate ==
  /\ pc = "evaluate"
  /\ flight' = launch(flight, "evaluate_fitness")
  /\ n_eval' = n_eval + 1
  /\ pc' = "sync_eval"
  /\ UNCHANGED << params, buf, pointers, d_states, h_fitness, h_elite_indices,
                  host_track, gen, kernel_log, evaluated_buf, n_repro, launch_rate,
                  outputs, process, fn_in, fn_out, n_sync >>

\* cudaDeviceSynchronize() after the evaluate_fitness launch.
SyncAfterEvaluate ==
  /\ pc = "sync_eval"
  /\ device_idle(flight)
  /\ n_sync' = [n_sync EXCEPT !.evaluate = @ + 1]
  /\ pc' = "select"
  /\ UNCHANGED << params, buf, pointers, d_states, h_fitness, h_elite_indices,
                  host_track, gen, kernel_log, launches, outputs, process,
                  fn_in, fn_out, flight >>

\* The copy of the fitness array to the host, the elite selection and the
\* tracking.
SyncSelect ==
  /\ pc = "select"
  /\ stream_drained(flight)
  /\ pc' = "reproduce"
  /\ UNCHANGED << params, buf, pointers, d_states, h_fitness, h_elite_indices,
                  host_track, gen, kernel_log, launches, outputs, process, harness >>

\* Not the final generation: the copy of the elite list to the device and
\* crossover_and_mutate<<<...>>>
SyncLaunchReproduce ==
  /\ pc = "reproduce"
  /\ reproduces(gen, generations)
  /\ stream_drained(flight)
  /\ flight' = launch(flight, "crossover_and_mutate")
  /\ n_repro' = n_repro + 1
  /\ pc' = "sync_repro"
  /\ UNCHANGED << params, buf, pointers, d_states, h_fitness, h_elite_indices,
                  host_track, gen, kernel_log, evaluated_buf, n_eval, launch_rate,
                  outputs, process, fn_in, fn_out, n_sync >>

\* cudaDeviceSynchronize() after the crossover_and_mutate launch, the swap
\* and gen++.
SyncAfterReproduce ==
  /\ pc = "sync_repro"
  /\ device_idle(flight)
  /\ n_sync' = [n_sync EXCEPT !.reproduce = @ + 1]
  /\ d_pop1' = d_pop2
  /\ d_pop2' = d_pop1
  /\ gen' = gen + 1
  /\ pc' = IF loop_continues(gen + 1, generations) THEN "evaluate" ELSE "output"
  /\ UNCHANGED << params, buf, d_states, h_fitness, h_elite_indices, host_track,
                  kernel_log, launches, outputs, process, fn_in, fn_out, flight >>

\* The final generation: gen++ and the loop ends.
SyncLastGeneration ==
  /\ pc = "reproduce"
  /\ ~reproduces(gen, generations)
  /\ gen' = gen + 1
  /\ pc' = IF loop_continues(gen + 1, generations) THEN "evaluate" ELSE "output"
  /\ UNCHANGED << params, buf, pointers, d_states, h_fitness, h_elite_indices,
                  host_track, kernel_log, launches, outputs, process, harness >>

SyncNext ==
  \/ GpuThreadFinishes
  \/ SyncLaunchInit
  \/ SyncAfterInit
  \/ SyncLaunchEvaluate
  \/ SyncAfterEvaluate
  \/ SyncSelect
  \/ SyncLaunchReproduce
  \/ SyncAfterReproduce
  \/ SyncLastGeneration

SpecSync == SyncInit /\ [][SyncNext]_vars

\* ------------------------------------------------------------ properties
\* C1: once init_population has run, and after every crossover_and_mutate
\* launch, every individual of the current population has slot 0 equal to
\* (0,0,0) and slot 15 equal to (255,255,255).
C1_FixedSlots ==
  pc \notin {"validate", "device", "exited", "init"} =>
    \A i \in Individuals : \A c \in Channels :
      /\ chan(buf[d_pop1][i], 0, c) = 0
      /\ chan(buf[d_pop1][i], NumColors - 1, c) = 255 * ChannelScale

\* A population built by two reproduction steps is the current one.
C1_Witness == pc = "select" /\ n_repro >= 2

\* C2: in every individual of every generation, each channel of each
\* non-fixed slot lies within that slot's [min, max] of color_ranges.
C2_WithinRanges ==
  pc \notin {"validate", "device", "exited", "init"} =>
    \A i \in Individuals : \A color \in Colors : \A c \in Channels :
      ~is_fixed(color_ranges(color)) =>
        /\ chan(buf[d_pop1][i], color, c)
             >= range_min(color_ranges(color), c) * ChannelScale
        /\ chan(buf[d_pop1][i], color, c)
             <= range_max(color_ranges(color), c) * ChannelScale

\* C3: best_ever_fitness never decreases from one step of the run to the next.
C3_BestEverMonotone == [][best_ever_fitness' >= best_ever_fitness]_vars

\* A generation whose best is below the record has been tracked.
C3_Witness == pc = "reproduce" /\ gen_best < best_ever_fitness

\* C4: after every evaluation best_ever_fitness is the maximum of the
\* per-generation bests so far, best_ever_generation is the first generation
\* that reached it, best_ever_palette is a palette that had that fitness in
\* the buffer evaluated in that generation, and the palette printed and
\* written to the theme file at the end is this record.
C4_BestEverIsOutput ==
  /\ history # << >> =>
       LET gens == 1 .. Len(history)
           top == CHOOSE f \in {history[g].best : g \in gens} :
                    \A g \in gens : history[g].best <= f
           first == CHOOSE g \in gens :
                      /\ history[g].best = top
                      /\ \A h \in gens : history[h].best = top => g <= h
       IN  /\ best_ever_fitness = top
           /\ best_ever_generation = first - 1
           /\ best_ever_palette \in history[first].palettes
  /\ pc = "done" => printed = best_ever_palette /\ theme = best_ever_palette

\* The run has ended with a record taken in a generation after the first.
C4_Witness == pc = "done" /\ best_ever_generation >= 1 /\ printed = best_ever_palette

\* C5, as the code has it: after each reproduction step the individual at
\* index r of the new population, for r below elite_count, equals (all 48
\* values) the individual of the previous population that the elite list
\* holds at position r.
C5_ElitesCopiedByRank ==
  (pc \in {"evaluate", "select"} /\ n_repro >= 1) =>
    \A r \in 1 .. elite_count :
      buf[d_pop1][r - 1] = buf[d_pop2][h_elite_indices[r]]

\* A reproduction step has copied an elite to an index other than its own.
C5_Witness ==
  /\ pc = "evaluate"
  /\ n_repro >= 1
  /\ \E r \in 1 .. elite_count :
       /\ h_elite_indices[r] # r - 1
       /\ buf[d_pop1][r - 1] = buf[d_pop2][h_elite_indices[r]]
       /\ buf[d_pop1][h_elite_indices[r]] # buf[d_pop2][h_elite_indices[r]]

\* C5, as stated: after each reproduction step every elite is found
\* unchanged in the new population at the index it had in the previous one.
C5_ElitesKeepIndex ==
  (pc \in {"evaluate", "select"} /\ n_repro >= 1) =>
    \A r \in 1 .. elite_count :
      buf[d_pop1][h_elite_indices[r]] = buf[d_pop2][h_elite_indices[r]]

\* C6: every position at which a crossover_and_mutate thread indexed the
\* elite list for a parent lies in 0 .. elite_count - 1.
C6_ParentsInEliteList ==
  \A i \in DOMAIN threads : \A w \in DOMAIN threads[i].pos :
    threads[i].pos[w] \in 0 .. (elite_count - 1)

\* C7: every reproduction step read only the buffer that was current and
\* wrote only the other one, the two pointers name the two buffers, and the
\* buffer evaluated after a reproduction step is the one that step wrote.
C7_StrictDoubleBuffering ==
  /\ {d_pop1, d_pop2} = {1, 2}
  /\ pop_writes # {} => pop_reads = {d_pop2} /\ pop_writes = {d_pop1}
  /\ (pc = "select" /\ n_repro >= 1) => evaluated_buf \in pop_writes

\* C8: evaluations and reproduce-and-swap steps alternate, starting with an
\* evaluation; the loop ends only after exactly generations evaluations and
\* generations - 1 reproduce-and-swap steps, and the population evaluated
\* last is the one produced last.
C8_FixedBudget ==
  /\ pc \in {"init", "evaluate"} =>
       n_eval = n_repro /\ n_eval = gen /\ gen < generations
  /\ pc \in {"select", "reproduce"} =>
       n_eval = n_repro + 1 /\ n_eval = gen + 1
  /\ pc \in {"output", "write", "done"} =>
       /\ n_eval = generations
       /\ n_repro = generations - 1
       /\ evaluated_buf = d_pop1

\* A run of more than one generation has ended.
C8_Witness == pc = "done" /\ generations >= 2 /\ n_eval = generations

\* C9: the mutation rate handed to crossover_and_mutate is never below the
\* base rate and never above the 0.5 ceiling.
C9_RateBetweenBaseAndCeiling ==
  launch_rate # NO_LAUNCH =>
    launch_rate >= mutation_rate /\ launch_rate <= MUTATION_CEILING

\* C10: a generation whose best exceeds best_ever_fitness sets the
\* stagnation counter to 0 and the effective rate to the base rate; any other
\* generation adds 1 to the counter and leaves the rate alone while the
\* counter is at most 100; the reproduction step is handed the rate so set;
\* the counter equals the number of generations since the last improvement.
C10_StagnationBookkeeping ==
  /\ [][(pc = "select" /\ pc' = "reproduce") =>
          IF gen_best' > best_ever_fitness
          THEN stagnant_generations' = 0 /\ current_mutation' = mutation_rate
          ELSE /\ stagnant_generations' = stagnant_generations + 1
               /\ stagnant_generations' <= STAGNATION_THRESHOLD =>
                    current_mutation' = current_mutation]_vars
  /\ [][(pc = "reproduce" /\ reproduces(gen, generations)) =>
          launch_rate' = current_mutation]_vars
  /\ [](pc = "reproduce" => stagnant_generations = gen - last_improved)

\* An improvement has come after the counter had passed the threshold.
C10_Witness ==
  /\ pc = "reproduce"
  /\ stagnant_generations = 0
  /\ last_improved > STAGNATION_THRESHOLD + 1
  /\ current_mutation = mutation_rate

C12_StartupValidation ==
  /\ (population_size < 100 \/ generations < 1) =>
       /\ pc \in {"validate", "exited"}
       /\ ~allocated
       /\ buf = << >>
       /\ threads = << >>
       /\ n_eval = 0
       /\ theme_file.state = "absent"
       /\ pc = "exited" =>
            /\ exit_status = 1
            /\ Len(console) = 1
            /\ console[1].kind \in {"population_error", "generations_error"}
  /\ (population_size >= 100 /\ generations >= 1) =>
       /\ pc # "validate" => pc # "exited" \/ console[Len(console)].kind = "no_device"
       /\ \A k \in 1 .. Len(console) :
            console[k].kind \notin {"population_error", "generations_error"}

\* A run with an accepted population and zero generations has been rejected.
C12_Witness ==
  /\ pc = "exited"
  /\ population_size >= 100
  /\ generations < 1
  /\ exit_status = 1

\* C13: when the theme file could not be opened or closed, the run still
\* ends with status 0 and its allocations freed, the error message shows
\* the path and the OS error string, and the colour report was printed
\* before it.
C13_WriteFailureNotFatal ==
  pc = "done" =>
    /\ exit_status = 0
    /\ ~allocated
    /\ printed = best_ever_palette
    /\ theme_file.state # "written" =>
         \E k \in 1 .. Len(console) :
           /\ console[k].kind \in {"open_error", "close_error"}
           /\ console[k].shows = {"filepath", "strerror"}
           /\ \E j \in 1 .. (k - 1) : console[j].kind = "color_demo"

\* A run has ended with status 0 and no theme file.
C13_Witness ==
  /\ pc = "done"
  /\ theme_file.state = "absent"
  /\ exit_status = 0
  /\ n_eval >= 1

\* C14: for a palette with every channel in [0, 255] the file written holds
\* 16 palette lines with index 0 .. 15 in order, line i carrying slot i,
\* then background (slot 0), foreground (slot 7), cursor-color (slot 11),
\* cursor-text (slot 0), selection-background (slot 4) and
\* selection-foreground; every colour is "#" and six lowercase hexadecimal
\* digits, two per channel, spelling the channel's integer part.
C14_ThemeSlotMapping ==
  (/\ fn_out.fn = "write_theme_file"
   /\ fn_in.outcome = "written"
   /\ \A k \in 1 .. PaletteLen :
        fn_in.palette[k] >= 0 /\ fn_in.palette[k] <= 255 * ChannelScale) =>
    LET lines == fn_out.result.file.lines
        lower == << "0", "1", "2", "3", "4", "5", "6", "7",
                    "8", "9", "a", "b", "c", "d", "e", "f" >>
        digit(d) == CHOOSE v \in 0 .. 15 : lower[v + 1] = d
        spells(value, slot) ==
          /\ Len(value) = 7
          /\ value[1] = "#"
          /\ \A k \in 2 .. 7 : \E v \in 0 .. 15 : lower[v + 1] = value[k]
          /\ \A c \in 0 .. 2 :
               16 * digit(value[2 * c + 2]) + digit(value[2 * c + 3])
                 = fn_in.palette[slot * 3 + c + 1] \div ChannelScale
        after == << << "background", 0 >>, << "foreground", 7 >>,
                    << "cursor-color", 11 >>, << "cursor-text", 0 >>,
                    << "selection-background", 4 >> >>
    IN  /\ Len(lines) = 22
        /\ \A i \in 0 .. 15 :
             /\ lines[i + 1].key = "palette"
             /\ lines[i + 1].index = i
             /\ spells(lines[i + 1].value, i)
        /\ \A n \in 1 .. 5 :
             /\ lines[16 + n].key = after[n][1]
             /\ spells(lines[16 + n].value, after[n][2])
        /\ lines[22].key = "selection-foreground"

\* A palette with channels below 16, fractional channels and different
\* colours in slots 0, 4, 7 and 11 was written.
C14_Witness ==
  /\ fn_out.fn = "write_theme_file"
  /\ fn_in.outcome = "written"
  /\ \A k \in 1 .. PaletteLen :
       fn_in.palette[k] >= 0 /\ fn_in.palette[k] <= 255 * ChannelScale
  /\ fn_out.result.file.lines[1].value = << "#", "0", "9", "0", "a", "0", "f" >>
  /\ fn_out.result.file.lines[17].value # fn_out.result.file.lines[18].value
  /\ fn_out.result.file.lines[18].value # fn_out.result.file.lines[21].value
  /\ fn_out.result.file.lines[19].value # fn_out.result.file.lines[21].value

\* C15: the host is past the synchronisation that follows an evaluation
\* only when every thread of that evaluation has finished, so that elite
\* selection starts after all fitness values are written; an evaluation is
\* launched only when no thread of the initialisation or of the previous
\* reproduction is unfinished; one synchronisation call has returned per
\* evaluation, one per reproduction and one for the initialisation.
C15_TwoBarriers ==
  /\ pc \in {"select", "reproduce"} => flight = << >>
  /\ \A k \in 1 .. Len(flight) : flight[k].kernel = "evaluate_fitness" => k = 1
  /\ pc \notin {"init", "sync_init"} => n_sync.init = 1
  /\ n_sync.evaluate = IF pc = "sync_eval" THEN n_eval - 1 ELSE n_eval
  /\ n_sync.reproduce = IF pc = "sync_repro" THEN n_repro - 1 ELSE n_repro
  /\ pc = "output" => n_sync.evaluate = generations
                      /\ n_sync.reproduce = generations - 1

\* The host waits at the synchronisation after the second evaluation while
\* one of its threads is unfinished.
C15_Witness ==
  /\ pc = "sync_eval"
  /\ n_eval = 2
  /\ Len(flight) = 1
  /\ Cardinality(flight[1].pending) = 1

\* C16: a launch of crossover_and_mutate produces the same population and
\* the same RNG states whatever the threads' reads return, so the run is
\* determined by seed, population size and generation count.
C16_ScheduleIndependent ==
  (pc = "reproduce" /\ reproduces(gen, generations)) =>
    \A r1 \in Resolutions : \A r2 \in Resolutions :
      reproduction(r1) = reproduction(r2)

C18_MinimumContrastOnBlack ==
  fn_out.fn = "base_on_black" =>
    LET minimum == << 5500, 4500, 3500, 3500, 3500, 3500, 4500 >>[fn_in.fg]
        cr == slot_contrast(fn_in.palette, fn_in.fg, BLACK)
    IN  /\ cr < minimum => fn_out.result = 0 - (minimum - cr) * 500
        /\ (cr >= minimum /\ cr <= 7500) =>
             fn_out.result = 100 * ContrastScale + 25 * cr

\* C19: with FM pairs enabled, each of red, green, yellow, magenta, cyan and
\* white as foreground on blue adds -(3.0 - contrast) x 400 to the score
\* when its contrast is below 3.0 and 80 + 15 x contrast when it is at
\* least 3.0; with FM pairs disabled it adds nothing.
C19_FmPairsOnBlue ==
  fn_out.fn = "fm_on_blue" =>
    LET required == 3000
        cr == slot_contrast(fn_in.palette, fn_in.fg, BLUE)
    IN  /\ (fn_in.fm_pairs /\ cr < required) =>
             fn_out.result = 0 - (required - cr) * 400
        /\ (fn_in.fm_pairs /\ cr >= required) =>
             fn_out.result = 80 * ContrastScale + 15 * cr
        /\ ~fn_in.fm_pairs => fn_out.result = 0

\* C20: for every pair of hue arguments, hue_distance returns a value in
\* [0, 180]; hue_distance(350, 10) = hue_distance(10, 350) = 20 and
\* hue_distance(0, 180) = 180.
C20_HueDistanceRange ==
  fn_out.fn = "hue_distance" =>
    /\ fn_out.result >= 0
    /\ fn_out.result <= 180
    /\ (fn_in.h1 = 350 /\ fn_in.h2 = 10) => fn_out.result = 20
    /\ (fn_in.h1 = 10 /\ fn_in.h2 = 350) => fn_out.result = 20
    /\ (fn_in.h1 = 0 /\ fn_in.h2 = 180) => fn_out.result = 180

\* C21: for colours with channels in 0..255, contrast_ratio gives the same
\* value for a pair in either order, the value is at least 1 and is 1 when
\* the two luminances are equal, and it is (lighter + 0.05) / (darker + 0.05)
\* whichever argument is the lighter.
C21_ContrastSymmetric ==
  fn_out.fn = "contrast_ratio" =>
    LET la == luminance(fn_in.c1[1] * ChannelScale, fn_in.c1[2] * ChannelScale,
                        fn_in.c1[3] * ChannelScale)
        lb == luminance(fn_in.c2[1] * ChannelScale, fn_in.c2[2] * ChannelScale,
                        fn_in.c2[3] * ChannelScale)
        lighter == IF la >= lb THEN la ELSE lb
        darker == IF la >= lb THEN lb ELSE la
    IN  /\ fn_out.forward = fn_out.backward
        /\ fn_out.forward >= ContrastScale
        /\ la = lb => fn_out.forward = ContrastScale
        /\ fn_out.forward * (darker + LumScale \div 20)
             <= (lighter + LumScale \div 20) * ContrastScale
        /\ (fn_out.forward + 1) * (darker + LumScale \div 20)
             > (lighter + LumScale \div 20) * ContrastScale

\* White against black in the darker-first order: 21 to 1.
C21_Witness ==
  /\ fn_out.fn = "contrast_ratio"
  /\ fn_in.c1 = << 0, 0, 0 >>
  /\ fn_in.c2 = << 255, 255, 255 >>
  /\ fn_out.forward = 21 * ContrastScale

\* C22: apca::contrast(text, bg) is positive only when the background is
\* lighter than the text and negative only when the text is lighter than
\* the background; contrast(a, b) and contrast(b, a) never have the same
\* non-zero sign; contrast(c, c) = 0; contrast_abs is the absolute value of
\* contrast.
C22_ApcaPolarity ==
  fn_out.fn = "apca_contrast" =>
    LET txtY == apca_luminance(fn_in.text[1] * ChannelScale, fn_in.text[2] * ChannelScale,
                               fn_in.text[3] * ChannelScale)
        bgY == apca_luminance(fn_in.bg[1] * ChannelScale, fn_in.bg[2] * ChannelScale,
                              fn_in.bg[3] * ChannelScale)
    IN  /\ fn_out.forward > 0 => bgY > txtY
        /\ fn_out.forward < 0 => txtY > bgY
        /\ ~(fn_out.forward > 0 /\ fn_out.backward > 0)
        /\ ~(fn_out.forward < 0 /\ fn_out.backward < 0)
        /\ fn_out.same = 0
        /\ fn_out.absolute >= 0
        /\ fn_out.absolute \in {fn_out.forward, 0 - fn_out.forward}

\* White text on black: Lc within 5 of -108, and the exchanged pair within
\* 5 of +106.
C22_Witness ==
  /\ fn_out.fn = "apca_contrast"
  /\ fn_in.text = << 255, 255, 255 >>
  /\ fn_in.bg = << 0, 0, 0 >>
  /\ fn_out.forward < 0 - 103000 /\ fn_out.forward > 0 - 113000
  /\ fn_out.backward > 101000 /\ fn_out.backward < 111000
  /\ fn_out.absolute = 0 - fn_out.forward

\* C23: for a lightness in [0, 1] and a hue in [0, 360),
\* max_chroma_in_gamut ends after its 20 bisection steps with a chroma C,
\* 0 <= C < 0.5, for which is_in_gamut(L, C, H) holds, and the lower bound
\* of the bisection is in gamut before the first step and after each step.
C23_ClampInGamut ==
  fn_out.fn = "max_chroma_in_gamut" =>
    /\ fn_out.result.chroma >= 0
    /\ fn_out.result.chroma < HalfChroma
    /\ is_in_gamut(fn_in.L, fn_out.result.chroma, fn_in.H)
    /\ Len(fn_out.result.lows) = BisectionSteps + 1
    /\ \A k \in 1 .. Len(fn_out.result.lows) :
         is_in_gamut(fn_in.L, fn_out.result.lows[k], fn_in.H)

\* A mid lightness at hue 30: the search ends on a chroma above 0.1, and
\* one quarter (the first midpoint) was outside the gamut.
C23_Witness ==
  /\ fn_out.fn = "max_chroma_in_gamut"
  /\ fn_in.L = (6 * OkScale) \div 10
  /\ fn_in.H = 30
  /\ fn_out.result.chroma > HalfChroma \div 5
  /\ fn_out.result.lows[2] = 0
  /\ ~is_in_gamut(fn_in.L, HalfChroma \div 2, fn_in.H)

\* C24: in every launch thread idx stores only individual idx of the buffer
\* being written, fitness[idx] and RNG state idx, no thread stores anything
\* for an index outside the population, and no buffer is read by a thread
\* of a launch whose threads write it.
C24_NoInterference ==
  /\ pop_reads \cap pop_writes = {}
  /\ DOMAIN threads \subseteq Individuals
  /\ allocated =>
       /\ \A b \in DOMAIN buf : DOMAIN buf[b] = Individuals
       /\ DOMAIN d_states = Individuals
       /\ DOMAIN h_fitness = Individuals
  /\ \A i \in DOMAIN threads :
       /\ threads[i].state = d_states[i]
       /\ pc \in {"evaluate", "select", "reproduce"} =>
            threads[i].palette = buf[d_pop1][i]

\* C25: elite_count is floor(population_size x 0.1) with
\* 1 <= elite_count < population_size, and after each elite selection the
\* elite list has elite_count entries, pairwise distinct indices of the
\* population, in non-increasing order of fitness, the first with the
\* maximum fitness of the population, and no individual outside the list
\* has greater fitness than one in it.
C25_EliteTopK ==
  /\ fn_out.fn = "elite_count" =>
       /\ fn_out.result = fn_in.population_size \div 10
       /\ fn_out.result >= 1
       /\ fn_out.result < fn_in.population_size
  /\ pc \in {"reproduce", "evaluate", "output", "write", "done"} /\ n_eval >= 1 =>
       LET listed == {h_elite_indices[r] : r \in 1 .. Len(h_elite_indices)}
       IN  /\ elite_count = population_size \div 10
           /\ Len(h_elite_indices) = elite_count
           /\ Cardinality(listed) = elite_count
           /\ listed \subseteq Individuals
           /\ pc = "reproduce" =>
                /\ \A r \in 1 .. (elite_count - 1) :
                     h_fitness[h_elite_indices[r]] >= h_fitness[h_elite_indices[r + 1]]
                /\ \A i \in Individuals :
                     h_fitness[h_elite_indices[1]] >= h_fitness[i]
                /\ \A i \in Individuals \ listed : \A j \in listed :
                     h_fitness[i] <= h_fitness[j]

\* The draws of one crossover_and_mutate thread from channel k on, st being
\* the generator state before channel k: per channel, whether the slot is
\* fixed, whether the mutation fired and the state its normal draw used.
RECURSIVE channel_draws(_, _, _, _)
channel_draws(k, st, rate, acc) ==
  IF k = PaletteLen THEN acc
  ELSE IF is_fixed(color_ranges(k \div NumChannels))
       THEN channel_draws(k + 1, st, rate,
                          Append(acc, [fixed |-> TRUE, fired |-> FALSE, normal |-> st]))
       ELSE LET s2 == curand_step(curand_step(st))
                s3 == curand_step(s2)
                fired == mutation_fires(s2, rate)
            IN  channel_draws(k + 1, IF fired THEN s3 ELSE s2, rate,
                              Append(acc, [fixed |-> FALSE, fired |-> fired, normal |-> s3]))

\* C26: in every reproduction step, each non-elite offspring has two
\* parents taken from the elite list, and in each non-fixed slot a channel
\* on which the mutation did not fire holds the value of that slot and
\* channel in one of the two parents, while a channel on which it fired
\* holds such a value plus the normal draw times a tenth of the channel's
\* range, clamped into the range.
C26_CrossoverProvenance ==
  [][(pc = "reproduce" /\ reproduces(gen, generations)) =>
       \A i \in elite_count .. (population_size - 1) :
         LET pos == threads'[i].pos
             draws == channel_draws(0, curand_step(curand_step(d_states[i])),
                                    current_mutation, << >>)
         IN  /\ pos[1] < elite_count
             /\ pos[2] < elite_count
             /\ LET p1 == buf[d_pop1][h_elite_indices[pos[1] + 1]]
                    p2 == buf[d_pop1][h_elite_indices[pos[2] + 1]]
                IN  \A k \in 1 .. PaletteLen :
                      LET range == color_ranges((k - 1) \div NumChannels)
                          lo == range_min(range, (k - 1) % NumChannels)
                          hi == range_max(range, (k - 1) % NumChannels)
                          val == threads'[i].palette[k]
                      IN  \/ draws[k].fixed
                          \/ /\ ~draws[k].fired
                             /\ val \in {p1[k], p2[k]}
                          \/ /\ draws[k].fired
                             /\ val \in {mutate(p1[k], draws[k].normal, lo, hi),
                                         mutate(p2[k], draws[k].normal, lo, hi)}]_vars

C28_PopulationBestNeverRegresses ==
  /\ (pc \in {"evaluate", "select"} /\ n_repro >= 1) =>
       \E i \in Individuals : buf[d_pop1][i] \in history[n_repro].palettes
  /\ \A g \in 1 .. (Len(history) - 1) : history[g + 1].best >= history[g].best
  /\ history # << >> =>
       /\ best_ever_fitness = history[Len(history)].best
       /\ best_ever_palette \in history[best_ever_generation + 1].palettes
       /\ last_improved = best_ever_generation
       /\ \A g \in 1 .. Len(history) :
            (g = 1 \/ history[g].best > history[g - 1].best)
              => best_ever_generation >= g - 1
       /\ best_ever_generation = 0
            \/ history[best_ever_generation + 1].best > history[best_ever_generation].best

\* The second generation's best equals the first's and the third's is
\* above it: the record was kept in generation 1 and replaced in
\* generation 2.
C28_Witness ==
  /\ pc = "reproduce"
  /\ Len(history) = 3
  /\ history[2].best = history[1].best
  /\ history[3].best > history[2].best
  /\ best_ever_generation = 2

\* C29: whenever the evaluator, on the channels as stored, counts a base
\* colour of the palette as within its range on black, the final report,
\* on the channels truncated to integers (the ones written out as hex),
\* prints the same constraint as met.
C29_ReportAgreesWithEvaluator ==
  (pc = "applied" /\ fn_out.fn = "constraint_check" /\ fn_out.met)
    => fn_out.check.status = "ok"

\* C30: for every population size that passes validation, the product
\* population_size x 16 x 3 that sizes the population buffers and the
\* offset idx x 16 x 3 of every individual stay within the signed 32-bit
\* range, and the individual's 48 values lie inside the buffer.
C30_NoOverflowInAddressing ==
  (pc = "applied" /\ fn_out.fn = "addressing") =>
    /\ ~fn_out.size.overflow
    /\ ~fn_out.offset.overflow
    /\ fn_out.inside

====
